------------------------------ MODULE ProtocolProofs ----------------------------
(***************************************************************************)
(* Type correctness of the transition function: every operator and handler  *)
(* of DisplayProtocol maps a typed state to a typed state.  The lemmas        *)
(* named ...Update type an update of several fields for arbitrary new values; *)
(* the handlers instantiate them.  The lemmas named ...Fields say what the    *)
(* helpers that many handlers share do to the fields of ProtocolMoves.        *)
(***************************************************************************)
EXTENDS ProtocolMoves, WellFoundedInduction, TLAPS

(* The optional values of a set are its members and None (Rust's Option). *)
LEMMA NoneOption ==
    ASSUME NEW S
    PROVE  None \in Option(S) /\ S \subseteq Option(S)
  BY DEF Option

(* Pushing an effect keeps a typed state typed (every handler that emits). *)
LEMMA EmitType ==
    ASSUME NEW s \in ProtocolState, NEW e \in Effect
    PROVE  Emit(s, e) \in ProtocolState
  <1>1. Append(s.effects, e) \in Seq(Effect) BY DEF ProtocolState
  <1> QED BY ZenonT(60), <1>1 DEF Emit, ProtocolState

(* release_to_server keeps a typed state typed. *)
LEMMA ReleaseToServerType ==
    ASSUME NEW s \in ProtocolState
    PROVE  ReleaseToServer(s) \in ProtocolState
  BY ZenonT(60), ConfigAssumption DEF ReleaseToServer, ProtocolState, Option

(* store_observation keeps a typed state typed. *)
LEMMA StoreObservationType ==
    ASSUME NEW s \in ProtocolState, NEW epoch \in Nat, NEW mode \in TvModes,
           NEW input \in Option(Hosts), NEW signals \in [DisplayHosts -> BOOLEAN]
    PROVE  StoreObservation(s, epoch, mode, input, signals) \in ProtocolState
  <1> DEFINE signal == [h \in DisplayHosts |->
                            [present |-> signals[h], switch_epoch |-> epoch]]
  <1>1. signal \in [DisplayHosts -> SignalObservation]
    BY DEF SignalObservation
  <1> HIDE DEF signal
  <1>2. [s EXCEPT !.tv_mode = mode, !.observed_input = input, !.input_signal = signal]
            \in ProtocolState
    BY ZenonT(60), <1>1 DEF ProtocolState
  <1> QED BY <1>2 DEF StoreObservation, signal

(* request_observation keeps a typed state typed. *)
LEMMA RequestObservationType ==
    ASSUME NEW s \in ProtocolState, NEW epoch \in Nat
    PROVE  RequestObservation(s, epoch) \in ProtocolState
  <1>1. [type |-> "Observe", switch_epoch |-> epoch] \in Effect
    BY DEF Effect
  <1>2. [s EXCEPT !.observation_in_flight = epoch, !.next_signal_poll = None,
                  !.phase_deadline = OBSERVATION_MS] \in ProtocolState
    BY ZenonT(60), ConfigAssumption DEF ProtocolState, Option
  <1> QED BY SMTT(40), <1>1, <1>2, EmitType DEF RequestObservation

(* So does its variant that preserves the deadline. *)
LEMMA RequestObservationPreservingDeadlineType ==
    ASSUME NEW s \in ProtocolState, NEW epoch \in Nat
    PROVE  RequestObservationPreservingDeadline(s, epoch) \in ProtocolState
  <1> DEFINE r == RequestObservation(s, epoch)
  <1>1. r \in ProtocolState BY RequestObservationType
  <1> HIDE DEF r
  <1>2. [r EXCEPT !.phase_deadline = s.phase_deadline] \in ProtocolState
    BY ZenonT(60), <1>1 DEF ProtocolState
  <1> QED BY <1>2 DEF RequestObservationPreservingDeadline, r

(* issue_grant keeps a typed state typed, provided the request has been *)
(* given its switch epoch.                                              *)
LEMMA IssueGrantType ==
    ASSUME NEW s \in ProtocolState, s.active_request \in EnterRequest,
           s.active_request.switch_epoch \in Nat
    PROVE  IssueGrant(s) \in ProtocolState
  <1> DEFINE request == s.active_request
             expires == IF GRANT_MS < request.lease.expires
                        THEN GRANT_MS ELSE request.lease.expires
             grant == [grant_epoch |-> s.grant_epoch + 1,
                       switch_epoch |-> request.switch_epoch, expires |-> expires]
             granted == [request EXCEPT !.status = "Grant", !.deadline = expires,
                                        !.grant = grant]
  <1>1. request.lease.expires \in Nat BY DEF EnterRequest, LeaseIdentity
  <1>2. expires \in Nat BY <1>1, ConfigAssumption
  <1>3. s.grant_epoch + 1 \in Nat BY DEF ProtocolState
  <1> HIDE DEF expires
  <1>4. grant \in GrantIdentity BY <1>2, <1>3 DEF GrantIdentity
  <1> HIDE DEF grant, request
  <1>5. granted \in EnterRequest
    BY ZenonT(60), <1>2, <1>4 DEF EnterRequest, Option, LiveStatus, request
  <1> HIDE DEF granted
  <1>6. [s EXCEPT !.grant_epoch = s.grant_epoch + 1, !.active_request = granted,
                  !.verified_epoch = request.switch_epoch, !.phase = "GrantPending",
                  !.phase_deadline = expires] \in ProtocolState
    BY ZenonT(60), <1>2, <1>3, <1>5 DEF ProtocolState, Option, Phases, request
  <1> QED BY <1>6 DEF IssueGrant, granted, grant, expires, request

(* Updates that several handlers share. *)
LEMMA CommandUpdate ==
    ASSUME NEW s \in ProtocolState, NEW input \in Option(Hosts), NEW phase \in Phases,
           NEW deadline \in Option(Nat)
    PROVE  /\ [s EXCEPT !.commanded_input = input, !.phase = phase,
                        !.phase_deadline = deadline] \in ProtocolState
           /\ [s EXCEPT !.commanded_input = input, !.phase_deadline = deadline]
                    \in ProtocolState
           /\ [s EXCEPT !.phase = phase, !.phase_deadline = deadline] \in ProtocolState
           /\ [s EXCEPT !.phase = phase] \in ProtocolState
  BY ZenonT(60) DEF ProtocolState

(* begin_switch keeps a typed state typed, on both its routes: a display *)
(* command, or an immediate grant.                                       *)
LEMMA BeginSwitchType ==
    ASSUME NEW s \in ProtocolState, s.active_request \in EnterRequest
    PROVE  BeginSwitch(s) \in ProtocolState
  <1> DEFINE epoch == s.switch_epoch + 1
             request == s.active_request
             target == request.target
             moved == [request EXCEPT !.status = "Switching", !.switch_epoch = epoch,
                                      !.deadline = COMMAND_MS + OBSERVATION_MS]
             switching == [s EXCEPT !.switch_epoch = epoch, !.active_request = moved]
             commanded == [switching EXCEPT !.commanded_input = target,
                                            !.phase = "Switching",
                                            !.phase_deadline = COMMAND_MS]
             local == [switching EXCEPT !.commanded_input = None, !.phase_deadline = None]
             effect == [type |-> "SetInput", target |-> target, switch_epoch |-> epoch,
                        fallback |-> FALSE]
  <1>1. epoch \in Nat BY DEF ProtocolState
  <1>2. target \in Hosts BY DEF EnterRequest
  <1>3. effect \in Effect BY <1>1, <1>2 DEF Effect
  <1>r. request \in EnterRequest OBVIOUS
  <1>d. COMMAND_MS + OBSERVATION_MS \in Nat /\ COMMAND_MS \in Nat BY ConfigAssumption
  <1> HIDE DEF epoch, target, request
  <1>4. moved \in EnterRequest
    BY ZenonT(60), <1>1, <1>r, <1>d DEF EnterRequest, Option, LiveStatus
  <1>4a. moved.switch_epoch = epoch
    BY <1>r DEF EnterRequest
  <1> HIDE DEF moved
  <1>5. switching \in ProtocolState
    BY ZenonT(60), <1>1, <1>4 DEF ProtocolState, Option
  <1>5a. switching.active_request = moved
    BY DEF ProtocolState
  <1> HIDE DEF switching, effect
  <1>6. commanded \in ProtocolState
    BY ZenonT(60), <1>2, <1>5, <1>d, CommandUpdate DEF Option, Phases
  <1>7. local \in ProtocolState
    BY ZenonT(60), <1>5, CommandUpdate DEF Option, Phases
  <1>7a. local.active_request = moved
    BY SMTT(40), <1>5, <1>5a DEF ProtocolState
  <1> HIDE DEF commanded, local
  <1>8. Emit(commanded, effect) \in ProtocolState BY SMTT(40), <1>3, <1>6, EmitType
  <1>9. IssueGrant(local) \in ProtocolState
    BY SMTT(40), <1>1, <1>4, <1>4a, <1>7, <1>7a, IssueGrantType
  <1> QED BY <1>8, <1>9
          DEF BeginSwitch, commanded, local, switching, moved, effect, epoch, target, request

(* issue_fallback_command keeps a typed state typed. *)
LEMMA IssueFallbackCommandType ==
    ASSUME NEW s \in ProtocolState
    PROVE  IssueFallbackCommand(s) \in ProtocolState
  <1> DEFINE epoch == s.switch_epoch + 1
  <1>1. epoch \in Nat BY DEF ProtocolState
  <1>2. [type |-> "SetInput", target |-> Server, switch_epoch |-> epoch, fallback |-> TRUE]
            \in Effect
    BY <1>1, ConfigAssumption DEF Effect
  <1> HIDE DEF epoch
  <1>3. [s EXCEPT !.switch_epoch = epoch, !.commanded_input = Server,
                  !.phase = "FallbackCommandPending", !.phase_deadline = COMMAND_MS]
            \in ProtocolState
    BY ZenonT(60), <1>1, ConfigAssumption DEF ProtocolState, Option, Phases
  <1> QED BY SMTT(40), <1>2, <1>3, EmitType DEF IssueFallbackCommand, epoch

(* The least number of a non-empty set of naturals is one of its members *)
(* (archive_request looks up the first position of a request id).        *)
LEMMA LeastNatural ==
    ASSUME NEW S \in SUBSET Nat, S # {}
    PROVE  Min(S) \in S /\ \A i \in S : Min(S) <= i
  <1> DEFINE R == OpToRel(<, Nat)
  <1>1. R = {p \in Nat \X Nat : p[1] < p[2]}  BY Zenon DEF OpToRel
  <1>2. IsWellFoundedOn(R, Nat)  BY ZenonT(60), NatLessThanWellFounded
  <1> HIDE DEF R
  <1>3. PICK x \in S : \A y \in S : ~ (<<y, x>> \in R) BY ZenonT(60), <1>2, WFMin
  <1>4. ASSUME NEW y \in S PROVE x <= y
    <2>1. <<y, x>> \in Nat \X Nat BY Zenon
    <2>2. ~(y < x) BY <1>1, <1>3, <2>1
    <2> QED BY <2>2
  <1> QED BY ZenonT(60), <1>4 DEF Min

(* The greatest number of a non-empty bounded set of naturals is one of its *)
(* members (request() looks up the last position of a request id).          *)
LEMMA GreatestBelow ==
    ASSUME NEW n \in Nat, NEW S \in SUBSET (1 .. n), S # {}
    PROVE  Max(S) \in S /\ \A i \in S : i <= Max(S)
  <1> DEFINE T == {n - i : i \in S}
  <1>1. T \in SUBSET Nat
    <2>1. \A i \in S : n - i \in Nat OBVIOUS
    <2> QED BY <2>1
  <1>2. T # {} BY ZenonT(60)
  <1>3. Min(T) \in T /\ \A i \in T : Min(T) <= i BY ZenonT(60), <1>1, <1>2, LeastNatural
  <1>4. PICK x \in S : Min(T) = n - x BY ZenonT(60), <1>3
  <1>5. ASSUME NEW i \in S PROVE i <= x
    <2>1. n - i \in T OBVIOUS
    <2>2. n - x <= n - i BY ZenonT(60), <1>3, <1>4, <2>1
    <2> QED BY <2>2
  <1> QED BY ZenonT(60), <1>5 DEF Max

(* The positions Archived finds are positions of request_history, and so *)
(* are the first and the last of them.                                   *)
LEMMA ArchivedPositions ==
    ASSUME NEW s \in ProtocolState, NEW id, Archived(s, id) # {}
    PROVE  /\ Min(Archived(s, id)) \in 1 .. Len(s.request_history)
           /\ Max(Archived(s, id)) \in 1 .. Len(s.request_history)
           /\ s.request_history[Max(Archived(s, id))].request_id = id
  <1> DEFINE n == Len(s.request_history)
             A == Archived(s, id)
  <1>1. s.request_history \in Seq(ArchivedRequest) BY DEF ProtocolState
  <1>2. n \in Nat /\ DOMAIN s.request_history = 1 .. n BY <1>1
  <1>3. A \in SUBSET (1 .. n) BY <1>2 DEF Archived
  <1>4. A \in SUBSET Nat BY SMTT(40), <1>2, <1>3
  <1> HIDE DEF n
  <1>5. Min(A) \in A BY SMTT(40), <1>4, LeastNatural
  <1>6. Max(A) \in A BY ZenonT(60), <1>2, <1>3, GreatestBelow
  <1> QED BY <1>3, <1>5, <1>6 DEF Archived, n

(* Removing one entry leaves a typed request_history. *)
LEMMA RemovedType ==
    ASSUME NEW S, NEW seq \in Seq(S), NEW i \in 1 .. Len(seq)
    PROVE  Removed(seq, i) \in Seq(S)
  BY DEF Removed

(* archive_request keeps a typed state typed. *)
LEMMA ArchiveRequestType ==
    ASSUME NEW s \in ProtocolState, NEW request \in EnterRequest, NEW status \in FinalStatus
    PROVE  ArchiveRequest(s, request, status) \in ProtocolState
  <1> DEFINE same == Archived(s, request.request_id)
             others == IF same = {} THEN s.request_history
                       ELSE Removed(s.request_history, Min(same))
             excess == IF Len(others) >= RetainedRequests
                       THEN Len(others) - RetainedRequests + 1 ELSE 0
             grantEpoch == IF request.grant = None THEN None ELSE request.grant.grant_epoch
             entry == [request_id |-> request.request_id, target |-> request.target,
                       request_epoch |-> request.request_epoch, lease |-> request.lease.id,
                       grant_epoch |-> grantEpoch, status |-> status]
             kept == SubSeq(others, excess + 1, Len(others))
  <1>1. s.request_history \in Seq(ArchivedRequest) BY DEF ProtocolState
  <1>2. others \in Seq(ArchivedRequest)
    <2>1. same # {} => Min(same) \in 1 .. Len(s.request_history) BY ArchivedPositions
    <2> QED BY SMTT(40), <1>1, <2>1, RemovedType
  <1> HIDE DEF others
  <1>3. excess \in Nat BY SMTT(40), <1>2, ConfigAssumption
  <1> HIDE DEF excess
  <1>4. kept \in Seq(ArchivedRequest) BY SMTT(40), <1>2, <1>3
  <1>5. grantEpoch \in Option(Nat) BY DEF EnterRequest, GrantIdentity, Option
  <1> HIDE DEF grantEpoch
  <1>6. entry \in ArchivedRequest BY <1>5 DEF ArchivedRequest, EnterRequest, LeaseIdentity
  <1> HIDE DEF kept, entry
  <1>7. Append(kept, entry) \in Seq(ArchivedRequest) BY SMTT(40), <1>4, <1>6
  <1>8. [s EXCEPT !.request_history = Append(kept, entry)] \in ProtocolState
    BY ZenonT(60), <1>7 DEF ProtocolState
  <1> QED BY <1>8 DEF ArchiveRequest, kept, entry, excess, others, grantEpoch

(* Setting the status of an archived request in place keeps a typed state *)
(* typed (begin_fallback and Cancel do so).                               *)
LEMMA StatusUpdateType ==
    ASSUME NEW s \in ProtocolState, NEW i \in 1 .. Len(s.request_history),
           NEW status \in FinalStatus
    PROVE  [s EXCEPT !.request_history[i].status = status] \in ProtocolState
  <1> DEFINE history == s.request_history
             entry == [history[i] EXCEPT !.status = status]
             updated == [history EXCEPT ![i] = entry]
  <1>1. history \in Seq(ArchivedRequest) BY DEF ProtocolState
  <1>2. history[i] \in ArchivedRequest BY <1>1
  <1>3. entry \in ArchivedRequest BY <1>2 DEF ArchivedRequest
  <1> HIDE DEF entry
  <1>4. updated \in Seq(ArchivedRequest) BY SMTT(40), <1>1, <1>3
  <1> HIDE DEF updated
  <1>5. [s EXCEPT !.request_history = updated] \in ProtocolState
    BY ZenonT(60), <1>4 DEF ProtocolState
  <1> QED BY <1>5 DEF updated, entry

(* Marking the session's request as a fallback keeps a typed state typed. *)
LEMMA FailCommittedRequestType ==
    ASSUME NEW s \in ProtocolState
    PROVE  FailCommittedRequest(s) \in ProtocolState
  <1> DEFINE at == IF s.active_session = None THEN {}
                   ELSE Archived(s, s.active_session.request_id)
  <1>1. at # {} => Max(at) \in 1 .. Len(s.request_history) BY ArchivedPositions
  <1> HIDE DEF at
  <1>2. at # {} => [s EXCEPT !.request_history[Max(at)].status = "Fallback"]
                        \in ProtocolState
    BY ZenonT(60), <1>1, StatusUpdateType DEF FinalStatus
  <1> QED BY <1>2 DEF FailCommittedRequest, at

(* A state released to the server, without request, multiview or observation. *)
LEMMA QuiescentType ==
    ASSUME NEW s \in ProtocolState, NEW recovery \in Option(Hosts), NEW restore \in BOOLEAN
    PROVE  [s EXCEPT !.manual_recovery_target = recovery,
                     !.fallback_required = restore,
                     !.verified_epoch = None,
                     !.pending_multiview = None,
                     !.observation_in_flight = None,
                     !.next_signal_poll = None,
                     !.active_request = None] \in ProtocolState
  BY ZenonT(60) DEF ProtocolState, Option

(* begin_fallback_with_restore keeps a typed state typed, whatever the *)
(* state.                                                              *)
LEMMA BeginFallbackWithRestoreType ==
    ASSUME NEW s \in ProtocolState, NEW restore \in BOOLEAN
    PROVE  BeginFallbackWithRestore(s, restore) \in ProtocolState
  <1> DEFINE request == s.active_request
             recovery == IF request # None /\ RoutedRemote(request.target)
                         THEN request.target ELSE s.manual_recovery_target
             free == ReleaseToServer(FailCommittedRequest(s))
             released == [free EXCEPT
                            !.manual_recovery_target = recovery,
                            !.fallback_required = restore,
                            !.verified_epoch = None,
                            !.pending_multiview = None,
                            !.observation_in_flight = None,
                            !.next_signal_poll = None,
                            !.active_request = None]
             archived == IF request = None THEN released
                         ELSE ArchiveRequest(released, request, "Fallback")
             phase == IF restore \/ ~DaemonHealthy(s) THEN "FallbackDeferred" ELSE "Idle"
  <1>1. request \in Option(EnterRequest) BY DEF ProtocolState
  <1>2. recovery \in Option(Hosts) BY <1>1 DEF ProtocolState, EnterRequest, Option
  <1>3. free \in ProtocolState BY FailCommittedRequestType, ReleaseToServerType
  <1> HIDE DEF recovery, free, request
  <1>4. released \in ProtocolState BY ZenonT(60), <1>2, <1>3, QuiescentType
  <1> HIDE DEF released
  <1>5. archived \in ProtocolState
    BY SMTT(40), <1>1, <1>4, ArchiveRequestType DEF Option, FinalStatus
  <1> HIDE DEF archived
  <1>6. IssueFallbackCommand(archived) \in ProtocolState
    BY SMTT(40), <1>5, IssueFallbackCommandType
  <1>7. [archived EXCEPT !.phase = phase, !.phase_deadline = None] \in ProtocolState
    BY ZenonT(60), <1>5, CommandUpdate DEF Option, Phases
  <1> QED BY <1>6, <1>7
          DEF BeginFallbackWithRestore, archived, released, free, recovery, request

(* So does begin_fallback, which decides itself whether the display must be *)
(* restored.                                                                *)
LEMMA BeginFallbackType ==
    ASSUME NEW s \in ProtocolState
    PROVE  BeginFallback(s) \in ProtocolState
  <1>1. DisplayRestoreRequired(s) \in BOOLEAN
    BY DEF DisplayRestoreRequired, ProtocolState
  <1> QED BY SMTT(40), <1>1, BeginFallbackWithRestoreType DEF BeginFallback

(* So does begin_active_session_failure_fallback. *)
LEMMA BeginActiveSessionFailureFallbackType ==
    ASSUME NEW s \in ProtocolState
    PROVE  BeginActiveSessionFailureFallback(s) \in ProtocolState
  <1> DEFINE target == s.active_session.target
  <1>1. s.active_session # None => target \in Hosts
    BY DEF ProtocolState, ActiveSession, Option
  <1> HIDE DEF target
  <1>2. target \in Hosts => [s EXCEPT !.manual_recovery_target = target] \in ProtocolState
    BY ZenonT(60) DEF ProtocolState, Option
  <1> QED BY SMTT(40), <1>1, <1>2, BeginFallbackType DEF BeginActiveSessionFailureFallback, target

(* The fields finish_fallback sets keep a typed state typed. *)
LEMMA FinishedUpdate ==
    ASSUME NEW s \in ProtocolState, NEW epoch \in Nat, NEW restore \in BOOLEAN
    PROVE  [s EXCEPT !.fallback_required = restore, !.phase = "Idle",
                     !.phase_deadline = None, !.observation_in_flight = None,
                     !.next_signal_poll = None, !.verified_epoch = epoch]
                \in ProtocolState
  BY ZenonT(60) DEF ProtocolState, Option, Phases

(* finish_fallback keeps a typed state typed. *)
LEMMA FinishFallbackType ==
    ASSUME NEW s \in ProtocolState
    PROVE  FinishFallback(s) \in ProtocolState
  <1> DEFINE free == ReleaseToServer(s)
  <1>2. free \in ProtocolState BY ReleaseToServerType
  <1>3. s.switch_epoch \in Nat BY DEF ProtocolState
  <1> HIDE DEF free
  <1> QED BY ZenonT(60), <1>2, <1>3, FinishedUpdate DEF FinishFallback, free

(* The fields accept_manual_display sets keep a typed state typed. *)
LEMMA AcceptedUpdate ==
    ASSUME NEW s \in ProtocolState, NEW restore \in BOOLEAN
    PROVE  [s EXCEPT !.commanded_input = None, !.manual_recovery_target = None,
                     !.fallback_required = restore, !.pending_multiview = None,
                     !.phase = "Idle", !.phase_deadline = None,
                     !.observation_in_flight = None, !.next_signal_poll = None]
                \in ProtocolState
  BY ZenonT(60) DEF ProtocolState, Option, Phases

(* accept_manual_display keeps a typed state typed. *)
LEMMA AcceptManualDisplayType ==
    ASSUME NEW s \in ProtocolState
    PROVE  AcceptManualDisplay(s) \in ProtocolState
  <1> DEFINE free == ReleaseToServer(s)
  <1>2. free \in ProtocolState BY ReleaseToServerType
  <1> HIDE DEF free
  <1> QED BY ZenonT(60), <1>2, AcceptedUpdate DEF AcceptManualDisplay, free

(* complete_multiview_observation keeps a typed state typed. *)
LEMMA CompleteMultiviewObservationType ==
    ASSUME NEW s \in ProtocolState
    PROVE  CompleteMultiviewObservation(s) \in ProtocolState
  <1>1. [s EXCEPT !.pending_multiview = None, !.phase = "Idle", !.phase_deadline = None]
            \in ProtocolState
    BY ZenonT(60) DEF ProtocolState, Option, Phases
  <1> QED BY <1>1, BeginFallbackType DEF CompleteMultiviewObservation

(* validated() returns one of its two states. *)
LEMMA ValidatedType ==
    ASSUME NEW s \in ProtocolState, NEW new \in ProtocolState
    PROVE  Validated(s, new).next \in ProtocolState
  BY DEF Validated, Ok, Err

(* A change of the connection state keeps a typed state typed. *)
LEMMA WsStateUpdate ==
    ASSUME NEW s \in ProtocolState, NEW ws \in WsStates
    PROVE  [s EXCEPT !.ws_state = ws] \in ProtocolState
  BY ZenonT(60) DEF ProtocolState

(* The lifecycle events of the transport keep a typed state typed. *)
LEMMA TransportTypes ==
    ASSUME NEW s \in ProtocolState
    PROVE  /\ ApplyTransportConnecting(s).next \in ProtocolState
           /\ ApplyTransportRegistering(s).next \in ProtocolState
           /\ ApplyTransportSubscribed(s).next \in ProtocolState
           /\ ApplyTransportDisconnected(s).next \in ProtocolState
  <1>1. \A ws \in WsStates : [s EXCEPT !.ws_state = ws] \in ProtocolState BY WsStateUpdate
  <1> QED BY <1>1, ValidatedType, BeginFallbackType
          DEF WsStates, ApplyTransportConnecting, ApplyTransportRegistering,
              ApplyTransportSubscribed, ApplyTransportDisconnected

(* TransportSynchronized keeps a typed state typed. *)
LEMMA ApplyTransportSynchronizedType ==
    ASSUME NEW s \in ProtocolState, NEW mode \in TvModes, NEW input \in Option(Hosts),
           NEW signals \in [DisplayHosts -> BOOLEAN]
    PROVE  ApplyTransportSynchronized(s, mode, input, signals).next \in ProtocolState
  <1> DEFINE online == [s EXCEPT !.ws_state = "Connected"]
             seen == StoreObservation(online, s.switch_epoch, mode, input, signals)
  <1>1. online \in ProtocolState BY ZenonT(60), WsStateUpdate DEF WsStates
  <1>2. s.switch_epoch \in Nat BY DEF ProtocolState
  <1> HIDE DEF online
  <1>3. seen \in ProtocolState BY <1>1, <1>2, StoreObservationType
  <1> HIDE DEF seen
  <1> QED BY SMTT(40), <1>3, FinishFallbackType, AcceptManualDisplayType, BeginFallbackType, ValidatedType
          DEF ApplyTransportSynchronized, seen, online

(* CommandAcknowledged keeps a typed state typed. *)
LEMMA ApplyCommandAcknowledgedType ==
    ASSUME NEW s \in ProtocolState, NEW epoch \in Nat, NEW target
    PROVE  ApplyCommandAcknowledged(s, epoch, target).next \in ProtocolState
  <1> DEFINE phase == IF s.fallback_required THEN "FallbackVerifying" ELSE "Verifying"
             told == [s EXCEPT !.phase = phase]
  <1>1. phase \in Phases BY SMTT(40) DEF Phases
  <1> HIDE DEF phase
  <1>2. told \in ProtocolState BY ZenonT(60), <1>1, CommandUpdate DEF Option
  <1> HIDE DEF told
  <1>3. RequestObservation(told, epoch) \in ProtocolState
    BY SMTT(40), <1>2, RequestObservationType
  <1> QED BY SMTT(40), <1>3, ValidatedType DEF ApplyCommandAcknowledged, Ok, told, phase

(* CommandFailed keeps a typed state typed, for any epoch it may carry. *)
LEMMA ApplyCommandFailedType ==
    ASSUME NEW s \in ProtocolState, NEW epoch
    PROVE  ApplyCommandFailed(s, epoch).next \in ProtocolState
  BY SMTT(40), BeginFallbackType, ValidatedType DEF ApplyCommandFailed

(* The branch of Observation for an active request keeps a typed state *)
(* typed.                                                              *)
LEMMA ObserveForRequestType ==
    ASSUME NEW s \in ProtocolState, s.active_request # None, NEW epoch \in Nat
    PROVE  ObserveForRequest(s, epoch) \in ProtocolState
  <1>1. s.active_request \in EnterRequest BY DEF ProtocolState, Option
  <1>2. s.active_request.switch_epoch = epoch => IssueGrant(s) \in ProtocolState
    BY SMTT(40), <1>1, IssueGrantType
  <1> QED BY SMTT(40), <1>2, BeginFallbackType DEF ObserveForRequest

(* The branch of Observation for an active session keeps a typed state *)
(* typed.                                                              *)
LEMMA ObserveForSessionType ==
    ASSUME NEW s \in ProtocolState, NEW epoch \in Nat
    PROVE  ObserveForSession(s, epoch) \in ProtocolState
  <1>1. [s EXCEPT !.phase_deadline = None, !.next_signal_poll = SIGNAL_POLL_MS]
            \in ProtocolState
    BY ZenonT(60), ConfigAssumption DEF ProtocolState, Option
  <1> QED BY SMTT(40), <1>1, BeginActiveSessionFailureFallbackType DEF ObserveForSession

(* Clearing the answered observation keeps a typed state typed. *)
LEMMA ObservationUpdate ==
    ASSUME NEW s \in ProtocolState, NEW epoch
    PROVE  [s EXCEPT !.observation_in_flight = IF @ = epoch THEN None ELSE @]
                \in ProtocolState
  <1> DEFINE left == IF s.observation_in_flight = epoch THEN None ELSE s.observation_in_flight
  <1>1. left \in Option(Nat) BY DEF ProtocolState, Option
  <1> HIDE DEF left
  <1>2. [s EXCEPT !.observation_in_flight = left] \in ProtocolState
    BY <1>1 DEF ProtocolState
  <1> QED BY <1>2 DEF left

(* Observation keeps a typed state typed. *)
LEMMA ApplyObservationType ==
    ASSUME NEW s \in ProtocolState, NEW epoch \in Nat, NEW mode \in TvModes,
           NEW input \in Option(Hosts), NEW signals \in [DisplayHosts -> BOOLEAN]
    PROVE  ApplyObservation(s, epoch, mode, input, signals).next \in ProtocolState
  <1> DEFINE stored == StoreObservation(s, epoch, mode, input, signals)
             seen == [stored EXCEPT !.observation_in_flight = IF @ = epoch THEN None ELSE @]
  <1>1. stored \in ProtocolState BY StoreObservationType
  <1> HIDE DEF stored
  <1>2. seen \in ProtocolState BY SMTT(40), <1>1, ObservationUpdate
  <1> HIDE DEF seen
  <1>3. FinishFallback(seen) \in ProtocolState BY SMTT(40), <1>2, FinishFallbackType
  <1>4. [seen EXCEPT !.phase = "FallbackVerifying"] \in ProtocolState
    BY ZenonT(60), <1>2, CommandUpdate DEF Option, Phases
  <1>5. seen.active_request # None => ObserveForRequest(seen, epoch) \in ProtocolState
    BY SMTT(40), <1>2, ObserveForRequestType
  <1>6. ObserveForSession(seen, epoch) \in ProtocolState BY SMTT(40), <1>2, ObserveForSessionType
  <1>7. CompleteMultiviewObservation(seen) \in ProtocolState
    BY <1>2, CompleteMultiviewObservationType
  <1> QED BY <1>2, <1>3, <1>4, <1>5, <1>6, <1>7, ValidatedType
          DEF ApplyObservation, seen, stored

(* MultiViewAcknowledged keeps a typed state typed. *)
LEMMA ApplyMultiViewAcknowledgedType ==
    ASSUME NEW s \in ProtocolState, NEW epoch \in Nat, NEW enabled
    PROVE  ApplyMultiViewAcknowledged(s, epoch, enabled).next \in ProtocolState
  <1> DEFINE asked == RequestObservation(s, epoch)
  <1>1. asked \in ProtocolState BY RequestObservationType
  <1> HIDE DEF asked
  <1>2. [asked EXCEPT !.phase = "MultiviewChanging"] \in ProtocolState
    BY ZenonT(60), <1>1, CommandUpdate DEF Option, Phases
  <1> QED BY SMTT(40), <1>2, ValidatedType DEF ApplyMultiViewAcknowledged, asked

(* Setting the manual recovery target keeps a typed state typed. *)
LEMMA RecoveryUpdate ==
    ASSUME NEW s \in ProtocolState, NEW target \in Option(Hosts)
    PROVE  [s EXCEPT !.manual_recovery_target = target] \in ProtocolState
  BY DEF ProtocolState

(* SubscriptionObserved keeps a typed state typed. *)
LEMMA ApplySubscriptionObservedType ==
    ASSUME NEW s \in ProtocolState, NEW mode \in TvModes, NEW input \in Option(Hosts)
    PROVE  ApplySubscriptionObserved(s, mode, input).next \in ProtocolState
  <1> DEFINE seen == [s EXCEPT !.tv_mode = mode, !.observed_input = input]
  <1>1. seen \in ProtocolState BY ZenonT(60) DEF ProtocolState
  <1>2. s.switch_epoch \in Nat BY DEF ProtocolState
  <1> HIDE DEF seen
  <1>3. RequestObservationPreservingDeadline(seen, s.switch_epoch) \in ProtocolState
    BY <1>1, <1>2, RequestObservationPreservingDeadlineType
  <1>4. BeginFallback(seen) \in ProtocolState BY SMTT(40), <1>1, BeginFallbackType
  <1>5. AcceptManualDisplay(seen) \in ProtocolState BY SMTT(40), <1>1, AcceptManualDisplayType
  <1>6. [seen EXCEPT !.manual_recovery_target = None] \in ProtocolState
    BY SMTT(40), <1>1, RecoveryUpdate DEF Option
  <1> QED BY SMTT(40), <1>1, <1>3, <1>4, <1>5, <1>6, ValidatedType
          DEF ApplySubscriptionObserved, seen

(* Recording the readiness of a peer keeps a typed state typed. *)
LEMMA PeersUpdate ==
    ASSUME NEW s \in ProtocolState, NEW host \in Hosts, NEW readiness \in PeerReadiness
    PROVE  [s EXCEPT !.peers[host] = readiness] \in ProtocolState
  <1> DEFINE peers == [s.peers EXCEPT ![host] = readiness]
  <1>1. peers \in [Hosts -> PeerReadiness] BY DEF ProtocolState
  <1> HIDE DEF peers
  <1>2. [s EXCEPT !.peers = peers] \in ProtocolState BY ZenonT(60), <1>1 DEF ProtocolState
  <1> QED BY SMTT(40), <1>2 DEF peers

(* PeerReadinessUpdated keeps a typed state typed. *)
LEMMA ApplyPeerReadinessUpdatedType ==
    ASSUME NEW s \in ProtocolState, NEW host \in Hosts, NEW readiness \in PeerReadiness
    PROVE  ApplyPeerReadinessUpdated(s, host, readiness).next \in ProtocolState
  <1> DEFINE told == [s EXCEPT !.peers[host] = readiness]
             request == s.active_request
             requestReady == BundleReady(readiness, request.lease.peer_session_epoch)
             forRequest ==
                IF request = None \/ request.target # host THEN told
                ELSE IF s.phase = "Waking" /\ requestReady THEN BeginSwitch(told)
                ELSE IF s.phase \in {"Switching", "Verifying", "GrantPending"} /\ ~requestReady
                THEN BeginFallback(told)
                ELSE told
  <1>1. told \in ProtocolState BY PeersUpdate
  <1>2. told.active_request = request BY DEF ProtocolState
  <1>3. request # None => request \in EnterRequest BY DEF ProtocolState, Option
  <1> HIDE DEF told, requestReady, request
  <1>4. forRequest \in ProtocolState
    BY SMTT(40), <1>1, <1>2, <1>3, BeginSwitchType, BeginFallbackType
  <1> HIDE DEF forRequest
  <1> QED BY <1>4, BeginActiveSessionFailureFallbackType, ValidatedType
          DEF ApplyPeerReadinessUpdated, forRequest, requestReady, request, told

(* ArmManualRecovery keeps a typed state typed. *)
LEMMA ApplyArmManualRecoveryType ==
    ASSUME NEW s \in ProtocolState, NEW target \in Hosts
    PROVE  ApplyArmManualRecovery(s, target).next \in ProtocolState
  BY SMTT(40), RecoveryUpdate, ValidatedType DEF ApplyArmManualRecovery, Err, Option

(* Installing a request keeps a typed state typed. *)
LEMMA RequestUpdate ==
    ASSUME NEW s \in ProtocolState, NEW request \in Option(EnterRequest)
    PROVE  [s EXCEPT !.active_request = request] \in ProtocolState
  BY DEF ProtocolState

(* Installing a waking request keeps a typed state typed. *)
LEMMA WokenUpdate ==
    ASSUME NEW s \in ProtocolState, NEW request \in EnterRequest, NEW deadline \in Nat
    PROVE  [s EXCEPT !.phase = "Waking", !.phase_deadline = deadline,
                     !.active_request = request] \in ProtocolState
  BY ZenonT(60) DEF ProtocolState, Option, Phases

(* Taking the next request epoch keeps a typed state typed. *)
LEMMA FreshUpdate ==
    ASSUME NEW s \in ProtocolState, NEW epoch \in Nat, NEW target \in Option(Hosts)
    PROVE  [s EXCEPT !.manual_recovery_target = target, !.request_epoch = epoch]
                \in ProtocolState
  BY ZenonT(60) DEF ProtocolState

(* Each of the four outcomes of a new request (local, waking, denied, *)
(* switching) is a typed state.                                       *)
LEMMA StartRequestType ==
    ASSUME NEW s \in ProtocolState, NEW id \in Requests, NEW target \in Hosts,
           NEW lease \in LeaseIdentity
    PROVE  StartRequest(s, id, target, lease) \in ProtocolState
  <1> DEFINE epoch == s.request_epoch + 1
             request == [request_id |-> id, target |-> target,
                         request_epoch |-> epoch, lease |-> lease,
                         status |-> "Switching", switch_epoch |-> None, grant |-> None,
                         deadline |-> COMMAND_MS]
             asleep == [request EXCEPT !.status = "Waking", !.deadline = WAKE_MS]
             fresh == [s EXCEPT !.manual_recovery_target = None, !.request_epoch = epoch]
             local == [ReleaseToServer(fresh) EXCEPT !.active_request = request]
             woken == [fresh EXCEPT !.phase = "Waking", !.phase_deadline = WAKE_MS,
                                    !.active_request = asleep]
             denied == [fresh EXCEPT !.manual_recovery_target = target]
             routed == [fresh EXCEPT !.active_request = request]
             wake == [type |-> "Wake", target |-> target]
  <1>1. epoch \in Nat BY DEF ProtocolState
  <1>2. COMMAND_MS \in Nat /\ WAKE_MS \in Nat BY ConfigAssumption
  <1>3. wake \in Effect BY DEF Effect
  <1> HIDE DEF epoch, wake
  <1>4. request \in EnterRequest BY SMTT(40), <1>1, <1>2 DEF EnterRequest, LiveStatus, Option
  <1>5. asleep \in EnterRequest BY ZenonT(60), <1>1, <1>2 DEF EnterRequest, LiveStatus, Option
  <1>6. fresh \in ProtocolState BY ZenonT(60), <1>1, FreshUpdate DEF Option
  <1> HIDE DEF request, asleep, fresh
  <1>7. ReleaseToServer(fresh) \in ProtocolState BY SMTT(40), <1>6, ReleaseToServerType
  <1>8. /\ local \in ProtocolState /\ local.active_request = request
    <2> DEFINE free == ReleaseToServer(fresh)
    <2> HIDE DEF free
    <2>1. free \in ProtocolState BY SMTT(40), <1>7 DEF free
    <2>2. [free EXCEPT !.active_request = request] \in ProtocolState
      BY SMTT(40), <1>4, <2>1, RequestUpdate DEF Option
    <2>3. [free EXCEPT !.active_request = request].active_request = request
      BY <2>1 DEF ProtocolState
    <2> QED BY SMTT(40), <2>2, <2>3 DEF free
  <1>9. routed \in ProtocolState BY SMTT(40), <1>4, <1>6, RequestUpdate DEF Option
  <1>10. routed.active_request = request BY SMTT(40), <1>6 DEF ProtocolState
  <1>11. woken \in ProtocolState BY ZenonT(60), <1>2, <1>5, <1>6, WokenUpdate DEF Option
  <1>12. denied \in ProtocolState BY SMTT(40), <1>6, RecoveryUpdate DEF Option
  <1> HIDE DEF local, routed, woken, denied
  <1>13. BeginSwitch(local) \in ProtocolState BY SMTT(40), <1>4, <1>8, BeginSwitchType
  <1>14. BeginSwitch(routed) \in ProtocolState BY SMTT(40), <1>4, <1>9, <1>10, BeginSwitchType
  <1>15. Emit(woken, wake) \in ProtocolState BY SMTT(40), <1>3, <1>11, EmitType
  <1>16. ArchiveRequest(denied, request, "Denied") \in ProtocolState
    BY SMTT(40), <1>4, <1>12, ArchiveRequestType DEF FinalStatus
  <1> QED BY <1>13, <1>14, <1>15, <1>16
          DEF StartRequest, local, routed, woken, denied, fresh, asleep, request, wake, epoch

(* CreateEnter keeps a typed state typed. *)
LEMMA ApplyCreateEnterType ==
    ASSUME NEW s \in ProtocolState, NEW id \in Requests, NEW target \in Hosts,
           NEW lease \in LeaseIdentity
    PROVE  ApplyCreateEnter(s, id, target, lease).next \in ProtocolState
  BY SMTT(40), StartRequestType, ValidatedType DEF ApplyCreateEnter, Ok, Err

(* The fields Commit sets keep a typed state typed. *)
LEMMA OwnedUpdate ==
    ASSUME NEW s \in ProtocolState, NEW request \in Option(EnterRequest),
           NEW owner \in Hosts, NEW restore \in BOOLEAN, NEW target \in Option(Hosts),
           NEW deadline \in Option(Nat), NEW observation \in Option(Nat),
           NEW session \in Option(ActiveSession), NEW phase \in Phases,
           NEW poll \in Option(Nat)
    PROVE  [s EXCEPT !.active_request = request, !.keyboard_owner = owner,
                     !.pointer_owner = owner, !.fallback_required = restore,
                     !.manual_recovery_target = target, !.phase_deadline = deadline,
                     !.observation_in_flight = observation, !.active_session = session,
                     !.phase = phase, !.next_signal_poll = poll] \in ProtocolState
  BY ZenonT(60) DEF ProtocolState

(* Handing the input over keeps a typed state typed, provided the request *)
(* has its switch epoch, which becomes the session's.                     *)
LEMMA CommitRequestType ==
    ASSUME NEW s \in ProtocolState, s.active_request \in EnterRequest,
           s.active_request.switch_epoch \in Nat
    PROVE  CommitRequest(s) \in ProtocolState
  <1> DEFINE request == s.active_request
             lease == [request.lease EXCEPT !.expires = LEASE_MS]
             local == request.target = Server
             session == [request_id |-> request.request_id, target |-> request.target,
                         request_epoch |-> request.request_epoch,
                         switch_epoch |-> request.switch_epoch,
                         lease |-> lease, renewed_until |-> LEASE_MS]
             chosen == IF local THEN None ELSE session
             phase == IF local THEN "Idle" ELSE "RemoteOwned"
             poll == IF ~local /\ HasDisplayRoute(request.target)
                     THEN SIGNAL_POLL_MS ELSE None
             owned == [s EXCEPT
                        !.active_request = None,
                        !.keyboard_owner = request.target,
                        !.pointer_owner = request.target,
                        !.fallback_required = FALSE,
                        !.manual_recovery_target = None,
                        !.phase_deadline = None,
                        !.observation_in_flight = None,
                        !.active_session = chosen,
                        !.phase = phase,
                        !.next_signal_poll = poll]
  <1>1. LEASE_MS \in Nat /\ SIGNAL_POLL_MS \in Nat BY ConfigAssumption
  <1>2. lease \in LeaseIdentity BY <1>1 DEF EnterRequest, LeaseIdentity
  <1>3. request.target \in Hosts BY DEF EnterRequest
  <1> HIDE DEF lease
  <1>4. session \in ActiveSession BY SMTT(40), <1>1, <1>2 DEF EnterRequest, ActiveSession
  <1> HIDE DEF session
  <1>5. chosen \in Option(ActiveSession) BY SMTT(40), <1>4 DEF Option
  <1>6. phase \in Phases /\ poll \in Option(Nat) BY SMTT(40), <1>1 DEF Phases, Option
  <1>7. request \in EnterRequest BY SMTT(40)
  <1> HIDE DEF chosen, phase, poll, request
  <1>8. owned \in ProtocolState BY ZenonT(60), <1>3, <1>5, <1>6, NoneOption, OwnedUpdate
  <1> HIDE DEF owned
  <1>9. ArchiveRequest(owned, request, "Committed") \in ProtocolState
    BY <1>7, <1>8, ArchiveRequestType DEF FinalStatus
  <1> QED BY <1>9 DEF CommitRequest, owned, chosen, phase, poll, session, lease, request

(* Commit keeps a typed state typed, provided a granted request has its *)
(* switch epoch.                                                        *)
LEMMA ApplyCommitType ==
    ASSUME NEW s \in ProtocolState, s.active_request # None =>
                (s.active_request.status = "Grant" => s.active_request.switch_epoch \in Nat),
           NEW id, NEW requestEpoch, NEW grantEpoch, NEW lease
    PROVE  ApplyCommit(s, id, requestEpoch, grantEpoch, lease).next \in ProtocolState
  <1>1. s.active_request # None => s.active_request \in EnterRequest
    BY DEF ProtocolState, Option
  <1>2. s.active_request # None /\ s.active_request.status = "Grant" =>
            CommitRequest(s) \in ProtocolState
    BY SMTT(40), <1>1, CommitRequestType
  <1> QED BY SMTT(40), <1>2, BeginFallbackType, ValidatedType DEF ApplyCommit, Err

(* The fields set when a request ends keep a typed state typed. *)
LEMMA EndedUpdate ==
    ASSUME NEW s \in ProtocolState, NEW request \in Option(EnterRequest),
           NEW target \in Option(Hosts)
    PROVE  [s EXCEPT !.active_request = request, !.manual_recovery_target = target]
                \in ProtocolState
  BY ZenonT(60) DEF ProtocolState

(* The active request ends with a status: cancelled or expired. *)
LEMMA EndedType ==
    ASSUME NEW s \in ProtocolState, s.active_request # None, NEW status \in FinalStatus
    PROVE  [ArchiveRequest(s, s.active_request, status) EXCEPT
                !.active_request = None,
                !.manual_recovery_target = IF s.active_request.target # Server
                                           THEN s.active_request.target ELSE @]
                \in ProtocolState
  <1> DEFINE archived == ArchiveRequest(s, s.active_request, status)
             target == IF s.active_request.target # Server
                       THEN s.active_request.target ELSE archived.manual_recovery_target
  <1>1. s.active_request \in EnterRequest BY DEF ProtocolState, Option
  <1>2. archived \in ProtocolState BY <1>1, ArchiveRequestType
  <1>3. s.active_request.target \in Option(Hosts) BY <1>1 DEF EnterRequest, Option
  <1> HIDE DEF archived
  <1>4. archived.manual_recovery_target \in Option(Hosts) BY <1>2 DEF ProtocolState
  <1>5. target \in Option(Hosts) BY SMTT(40), <1>3, <1>4
  <1> HIDE DEF target
  <1>6. [archived EXCEPT !.active_request = None, !.manual_recovery_target = target]
            \in ProtocolState
    BY ZenonT(60), <1>2, <1>5, NoneOption, EndedUpdate
  <1> QED BY <1>6 DEF archived, target

(* Cancel keeps a typed state typed. *)
LEMMA ApplyCancelType ==
    ASSUME NEW s \in ProtocolState, NEW id
    PROVE  ApplyCancel(s, id).next \in ProtocolState
  <1> DEFINE at == Archived(s, id)
             request == s.active_request
             ended == [ArchiveRequest(s, request, "Cancelled") EXCEPT
                        !.active_request = None,
                        !.manual_recovery_target =
                            IF request.target # Server THEN request.target ELSE @]
             marked == [s EXCEPT !.request_history[Max(at)].status = "Cancelled"]
  <1>1. request # None => ended \in ProtocolState BY ZenonT(60), EndedType DEF FinalStatus
  <1>2. at # {} => marked \in ProtocolState
    BY ZenonT(60), ArchivedPositions, StatusUpdateType DEF FinalStatus
  <1> HIDE DEF ended, marked, at, request
  <1>3. request # None => BeginFallback(ended) \in ProtocolState BY <1>1, BeginFallbackType
  <1>4. request # None => [ended EXCEPT !.phase = "Idle", !.phase_deadline = None]
                                \in ProtocolState
    BY ZenonT(60), <1>1, CommandUpdate DEF Phases, Option
  <1>5. at # {} => BeginFallback(marked) \in ProtocolState BY SMTT(40), <1>2, BeginFallbackType
  <1> QED BY SMTT(40), <1>3, <1>4, <1>5, ValidatedType
          DEF ApplyCancel, Err, ended, marked, at, request

(* Replacing the session keeps a typed state typed. *)
LEMMA SessionUpdate ==
    ASSUME NEW s \in ProtocolState, NEW session \in Option(ActiveSession)
    PROVE  [s EXCEPT !.active_session = session] \in ProtocolState
  BY DEF ProtocolState

(* Renew keeps a typed state typed. *)
LEMMA ApplyRenewType ==
    ASSUME NEW s \in ProtocolState, NEW id, NEW lease, NEW peerSession
    PROVE  ApplyRenew(s, id, lease, peerSession).next \in ProtocolState
  <1> DEFINE session == s.active_session
             held == [session.lease EXCEPT !.expires = LEASE_MS]
             renewed == [session EXCEPT !.renewed_until = LEASE_MS, !.lease = held]
  <1>1. LEASE_MS \in Nat BY SMTT(40), ConfigAssumption
  <1>2. session # None => session \in ActiveSession BY DEF ProtocolState, Option
  <1> HIDE DEF session
  <1>3. session # None => held \in LeaseIdentity
    BY SMTT(40), <1>1, <1>2 DEF ActiveSession, LeaseIdentity
  <1> HIDE DEF held
  <1>4. session # None => renewed \in ActiveSession
    BY ZenonT(60), <1>1, <1>2, <1>3 DEF ActiveSession
  <1> HIDE DEF renewed
  <1>5. session # None => [s EXCEPT !.active_session = renewed] \in ProtocolState
    BY <1>4, NoneOption, SessionUpdate
  <1>6. session # None => [s EXCEPT !.active_session = renewed]
            = [s EXCEPT !.active_session.renewed_until = LEASE_MS,
                        !.active_session.lease.expires = LEASE_MS]
    BY ZenonT(60), <1>2 DEF renewed, held, session, ProtocolState, ActiveSession
  <1> QED BY SMTT(40), <1>5, <1>6, BeginActiveSessionFailureFallbackType, ValidatedType
          DEF ApplyRenew, session

(* The fields MultiViewRequested sets keep a typed state typed. *)
LEMMA MultiViewUpdate ==
    ASSUME NEW s \in ProtocolState, NEW epoch \in Nat, NEW enabled \in Option(BOOLEAN),
           NEW phase \in Phases, NEW deadline \in Option(Nat)
    PROVE  [s EXCEPT !.switch_epoch = epoch, !.pending_multiview = enabled,
                     !.phase = phase, !.phase_deadline = deadline] \in ProtocolState
  BY ZenonT(60) DEF ProtocolState

(* MultiViewRequested keeps a typed state typed. *)
LEMMA ApplyMultiViewRequestedType ==
    ASSUME NEW s \in ProtocolState, NEW enabled \in BOOLEAN
    PROVE  ApplyMultiViewRequested(s, enabled).next \in ProtocolState
  <1> DEFINE epoch == s.switch_epoch + 1
             effect == [type |-> "SetMultiView", enabled |-> enabled, switch_epoch |-> epoch]
             asked == [s EXCEPT !.switch_epoch = epoch, !.pending_multiview = enabled,
                                !.phase = "MultiviewChanging", !.phase_deadline = COMMAND_MS]
  <1>1. epoch \in Nat BY DEF ProtocolState
  <1>2. COMMAND_MS \in Nat BY SMTT(40), ConfigAssumption
  <1>3. effect \in Effect BY SMTT(40), <1>1 DEF Effect
  <1> HIDE DEF epoch, effect
  <1>4. enabled \in Option(BOOLEAN) /\ COMMAND_MS \in Option(Nat) BY SMTT(40), <1>2, NoneOption
  <1>5. "MultiviewChanging" \in Phases BY SMTT(40) DEF Phases
  <1>6. asked \in ProtocolState BY ZenonT(60), <1>1, <1>4, <1>5, MultiViewUpdate
  <1> HIDE DEF asked
  <1> QED BY <1>3, <1>6, EmitType, ValidatedType
          DEF ApplyMultiViewRequested, Err, asked, effect, epoch

(* The fields Shutdown sets keep a typed state typed. *)
LEMMA ShutdownUpdate ==
    ASSUME NEW s \in ProtocolState, NEW ws \in WsStates, NEW restore \in BOOLEAN,
           NEW phase \in Phases, NEW request \in Option(EnterRequest),
           NEW multiview \in Option(BOOLEAN), NEW deadline \in Option(Nat)
    PROVE  [s EXCEPT !.ws_state = ws, !.fallback_required = restore, !.phase = phase,
                     !.active_request = request, !.pending_multiview = multiview,
                     !.phase_deadline = deadline] \in ProtocolState
  BY ZenonT(60) DEF ProtocolState

(* Shutdown keeps a typed state typed. *)
LEMMA ApplyShutdownType ==
    ASSUME NEW s \in ProtocolState
    PROVE  ApplyShutdown(s).next \in ProtocolState
  <1> DEFINE free == ReleaseToServer(s)
  <1>1. free \in ProtocolState BY ReleaseToServerType
  <1>2. "Disconnected" \in WsStates /\ "FallbackDeferred" \in Phases BY DEF WsStates, Phases
  <1> HIDE DEF free
  <1>3. [free EXCEPT !.ws_state = "Disconnected", !.fallback_required = TRUE,
                     !.phase = "FallbackDeferred", !.active_request = None,
                     !.pending_multiview = None, !.phase_deadline = None] \in ProtocolState
    BY ZenonT(60), <1>1, <1>2, NoneOption, ShutdownUpdate
  <1> QED BY <1>3, ValidatedType DEF ApplyShutdown, free

(* The first part of Tick, which ends an expired request, keeps a typed *)
(* state typed.                                                         *)
LEMMA ExpireRequestType ==
    ASSUME NEW s \in ProtocolState
    PROVE  ExpireRequest(s) \in ProtocolState
  <1> DEFINE request == s.active_request
             expired == [ArchiveRequest(s, request, "Expired") EXCEPT
                            !.active_request = None,
                            !.manual_recovery_target =
                                IF request.target # Server THEN request.target ELSE @]
  <1>1. request # None => expired \in ProtocolState BY ZenonT(60), EndedType DEF FinalStatus
  <1>2. DisplayRestoreRequired(s) \in BOOLEAN BY DEF DisplayRestoreRequired, ProtocolState
  <1> HIDE DEF expired, request
  <1>3. request # None => [expired EXCEPT !.phase = "Idle", !.phase_deadline = None]
                                \in ProtocolState
    BY ZenonT(60), <1>1, CommandUpdate DEF Phases, Option
  <1>4. request # None =>
            BeginFallbackWithRestore(expired, DisplayRestoreRequired(s)) \in ProtocolState
    BY SMTT(40), <1>1, <1>2, BeginFallbackWithRestoreType
  <1> QED BY SMTT(40), <1>3, <1>4 DEF ExpireRequest, expired, request

(* Tick keeps a typed state typed, provided the phase RemoteOwned has a *)
(* session: Tick reads the session's switch epoch for the signal poll.  *)
LEMMA ApplyTickType ==
    ASSUME NEW s \in ProtocolState,
           LET next == ExpireRequest(s)
           IN  next.phase = "RemoteOwned" => next.active_session # None
    PROVE  ApplyTick(s).next \in ProtocolState
  <1> DEFINE next == ExpireRequest(s)
             session == next.active_session
  <1>1. next \in ProtocolState BY SMTT(40), ExpireRequestType
  <1> HIDE DEF next
  <1>2. session # None => session.switch_epoch \in Nat
    BY SMTT(40), <1>1 DEF ProtocolState, Option, ActiveSession
  <1>3. next.phase = "RemoteOwned" => session # None BY DEF next
  <1> HIDE DEF session
  <1>4. next.phase = "RemoteOwned" =>
            RequestObservation(next, session.switch_epoch) \in ProtocolState
    BY SMTT(40), <1>1, <1>2, <1>3, RequestObservationType
  <1>5. /\ BeginActiveSessionFailureFallback(next) \in ProtocolState
        /\ BeginFallback(next) \in ProtocolState
        /\ IssueFallbackCommand(next) \in ProtocolState
    BY SMTT(40), <1>1, BeginActiveSessionFailureFallbackType, BeginFallbackType,
       IssueFallbackCommandType
  <1> QED BY SMTT(40), <1>1, <1>4, <1>5, ValidatedType DEF ApplyTick, next, session

(* Time that passes leaves a typed time. *)
LEMMA LowerType ==
    /\ \A t \in Nat : Lower(t) \in Nat
    /\ \A t \in Option(Nat) : Lower(t) \in Option(Nat)
  BY SMTT(40), NoneAssumption DEF Lower, Option

(* The fields time changes keep a typed state typed. *)
LEMMA TimesUpdate ==
    ASSUME NEW s \in ProtocolState, NEW deadline \in Option(Nat), NEW poll \in Option(Nat),
           NEW request \in Option(EnterRequest), NEW session \in Option(ActiveSession)
    PROVE  [s EXCEPT !.phase_deadline = deadline, !.next_signal_poll = poll,
                     !.active_request = request, !.active_session = session]
                \in ProtocolState
  BY ZenonT(60) DEF ProtocolState

(* Time that passes leaves typed leases and grants. *)
LEMMA LowerExpiryType ==
    /\ \A lease \in LeaseIdentity : LowerExpiry(lease) \in LeaseIdentity
    /\ \A grant \in Option(GrantIdentity) : LowerExpiry(grant) \in Option(GrantIdentity)
  <1>1. \A lease \in LeaseIdentity : lease # None =>
            [lease EXCEPT !.expires = Lower(@)] \in LeaseIdentity
    BY LowerType DEF LeaseIdentity
  <1>2. \A grant \in GrantIdentity : [grant EXCEPT !.expires = Lower(@)] \in GrantIdentity
    BY SMTT(40), LowerType DEF GrantIdentity
  <1>3. None \notin LeaseIdentity BY SMTT(40), NoneAssumption
  <1> QED BY <1>1, <1>2, <1>3 DEF LowerExpiry, Option

(* Time that passes leaves a typed request, and does not remove it. *)
LEMMA ElapseRequestType ==
    ASSUME NEW request \in Option(EnterRequest)
    PROVE  /\ ElapseRequest(request) \in Option(EnterRequest)
           /\ request # None => ElapseRequest(request) \in EnterRequest
  <1>1. ASSUME NEW r \in EnterRequest
        PROVE  [r EXCEPT !.deadline = Lower(@), !.lease = LowerExpiry(@),
                         !.grant = LowerExpiry(@)] \in EnterRequest
    <2>1. /\ Lower(r.deadline) \in Nat /\ LowerExpiry(r.lease) \in LeaseIdentity
          /\ LowerExpiry(r.grant) \in Option(GrantIdentity)
      BY LowerType, LowerExpiryType DEF EnterRequest
    <2> QED BY ZenonT(60), <2>1 DEF EnterRequest
  <1> QED BY ZenonT(60), <1>1 DEF ElapseRequest, Option

(* Time that passes leaves a typed session, and does not remove it. *)
LEMMA ElapseSessionType ==
    ASSUME NEW session \in Option(ActiveSession)
    PROVE  /\ ElapseSession(session) \in Option(ActiveSession)
           /\ session # None => ElapseSession(session) \in ActiveSession
  <1>1. ASSUME NEW v \in ActiveSession
        PROVE  [v EXCEPT !.renewed_until = Lower(@), !.lease = LowerExpiry(@)]
                    \in ActiveSession
    <2>1. Lower(v.renewed_until) \in Nat /\ LowerExpiry(v.lease) \in LeaseIdentity
      BY LowerType, LowerExpiryType DEF ActiveSession
    <2> QED BY ZenonT(60), <2>1 DEF ActiveSession
  <1> QED BY ZenonT(60), <1>1 DEF ElapseSession, Option

(* Time that passes keeps a typed state typed. *)
LEMMA ElapseType ==
    ASSUME NEW s \in ProtocolState
    PROVE  Elapse(s) \in ProtocolState
  <1>1. /\ Lower(s.phase_deadline) \in Option(Nat) /\ Lower(s.next_signal_poll) \in Option(Nat)
        /\ ElapseRequest(s.active_request) \in Option(EnterRequest)
        /\ ElapseSession(s.active_session) \in Option(ActiveSession)
    BY ZenonT(60), LowerType, ElapseRequestType, ElapseSessionType DEF ProtocolState
  <1> QED BY ZenonT(60), <1>1, TimesUpdate DEF Elapse

(* The record with_display_hosts builds is typed. *)
LEMMA InitialUpdate ==
    ASSUME NEW signal \in SignalObservation, NEW peer \in PeerReadiness,
           NEW restore \in BOOLEAN
    PROVE  [ws_state |-> "Disconnected", phase |-> "FallbackDeferred", tv_mode |-> "Unknown",
            commanded_input |-> None, observed_input |-> None,
            input_signal |-> [h \in DisplayHosts |-> signal],
            peers |-> [h \in Hosts |-> peer],
            request_epoch |-> 0, switch_epoch |-> 0, grant_epoch |-> 0,
            verified_epoch |-> None, keyboard_owner |-> Server, pointer_owner |-> Server,
            active_request |-> None, request_history |-> <<>>,
            active_session |-> None, pending_multiview |-> None,
            observation_in_flight |-> None, phase_deadline |-> None,
            next_signal_poll |-> None, fallback_required |-> restore,
            manual_recovery_target |-> None, effects |-> <<>>]
                \in ProtocolState
  <1>1. Server \in Hosts BY ConfigAssumption
  <1>2. None \in Option(Hosts) /\ None \in Option(Nat) /\ None \in Option(EnterRequest)
         /\ None \in Option(ActiveSession) /\ None \in Option(BOOLEAN)
    BY NoneOption
  <1>3. "Disconnected" \in WsStates /\ "FallbackDeferred" \in Phases /\ "Unknown" \in TvModes
    BY DEF WsStates, Phases, TvModes
  <1>4. <<>> \in Seq(ArchivedRequest) /\ <<>> \in Seq(Effect) OBVIOUS
  <1> QED BY SMTT(40), <1>1, <1>2, <1>3, <1>4 DEF ProtocolState

(* The state the daemon starts in is typed. *)
LEMMA InitialType == WithDisplayHosts \in ProtocolState
  <1>1. \A b \in BOOLEAN : [present |-> b, switch_epoch |-> 0] \in SignalObservation
    BY DEF SignalObservation
  <1>2. \A b, c \in BOOLEAN :
            [online |-> b, ready |-> c, session_epoch |-> 0] \in PeerReadiness
    BY DEF PeerReadiness
  <1>3. FALSE \in BOOLEAN /\ TRUE \in BOOLEAN OBVIOUS
  <1>4. [present |-> FALSE, switch_epoch |-> 0] \in SignalObservation BY <1>1, <1>3, Zenon
  <1>5. [online |-> FALSE, ready |-> FALSE, session_epoch |-> 0] \in PeerReadiness
    BY <1>2, <1>3, Zenon
  <1> QED BY <1>3, <1>4, <1>5, InitialUpdate, Zenon DEF WithDisplayHosts

(* What clients, peers and the TV send is typed. *)
LEMMA EnvironmentTypes ==
    /\ Readiness \subseteq PeerReadiness
    /\ OfferedLeases \subseteq LeaseIdentity
    /\ Inputs \subseteq Option(Hosts)
    /\ \A e \in Effect : e.type # "Wake" => e.switch_epoch \in Nat
  <1>1. OfferedLeases \subseteq LeaseIdentity
    <2>1. LEASE_MS \in Nat BY SMTT(40), ConfigAssumption
    <2>2. 0 .. LEASE_MS \subseteq Nat BY SMTT(40), <2>1
    <2>3. PeerSessions \subseteq Nat \ {0} BY SMTT(40), EnvironmentAssumption
    <2> QED BY <2>2, <2>3, Zenon DEF OfferedLeases, LeaseIdentity
  <1>2. Inputs \subseteq Option(Hosts) BY SMTT(40), ConfigAssumption DEF Inputs, Option
  <1>3. \A e \in Effect : e.type # "Wake" => e.switch_epoch \in Nat BY DEF Effect
  <1>4. Readiness \subseteq PeerReadiness
    <2>1. PeerSessions \subseteq Nat BY EnvironmentAssumption
    <2>2. [online : {TRUE}, ready : BOOLEAN, session_epoch : PeerSessions]
            \subseteq [online : BOOLEAN, ready : BOOLEAN, session_epoch : Nat]
      BY ZenonT(60), <2>1
    <2>3. [online : {FALSE}, ready : {FALSE}, session_epoch : {0}]
            \subseteq [online : BOOLEAN, ready : BOOLEAN, session_epoch : Nat]
      <3>1. {0} \subseteq Nat /\ {FALSE} \subseteq BOOLEAN BY SMTT(40)
      <3> QED BY <3>1, Zenon
    <2> QED BY ZenonT(60), <2>2, <2>3 DEF Readiness, PeerReadiness
  <1> QED BY SMTT(40), <1>1, <1>2, <1>3, <1>4

(* Pushing an effect changes nothing but the effects. *)
LEMMA EmitFields ==
    ASSUME NEW s \in ProtocolState, NEW e, e.type # "SetMultiView"
    PROVE  LET t == Emit(s, e)
           IN  /\ SameWork(s, t) /\ SameDisplay(s, t) /\ Carries(s, t)
               /\ t.ws_state = s.ws_state /\ t.phase = s.phase
               /\ t.phase_deadline = s.phase_deadline
  <1> DEFINE effects == Append(s.effects, e)
             t == [s EXCEPT !.effects = effects]
  <1>1. s.effects \in Seq(Effect) BY DEF ProtocolState
  <1>2. NoViewCommand(s) => \A i \in DOMAIN effects : effects[i].type # "SetMultiView"
    BY <1>1 DEF NoViewCommand
  <1> HIDE DEF effects
  <1>3. /\ SameWork(s, t) /\ SameDisplay(s, t)
        /\ t.ws_state = s.ws_state /\ t.phase = s.phase
        /\ t.phase_deadline = s.phase_deadline /\ t.effects = effects
    BY DEF SameWork, SameDisplay, ProtocolState
  <1> HIDE DEF t
  <1>4. Carries(s, t) BY <1>2, <1>3 DEF Carries, Tidy, NoViewCommand, SameWork
  <1> QED BY SMTT(40), <1>3, <1>4 DEF Emit, effects, t

(* request_observation arms the deadline and changes nothing else of this. *)
LEMMA RequestObservationFields ==
    ASSUME NEW s \in ProtocolState, NEW epoch \in Nat
    PROVE  LET t == RequestObservation(s, epoch)
           IN  /\ SameWork(s, t) /\ SameDisplay(s, t) /\ Carries(s, t)
               /\ t.ws_state = s.ws_state /\ t.phase = s.phase
               /\ t.phase_deadline = OBSERVATION_MS
  <1> DEFINE u == [s EXCEPT !.observation_in_flight = epoch, !.next_signal_poll = None,
                            !.phase_deadline = OBSERVATION_MS]
             e == [type |-> "Observe", switch_epoch |-> epoch]
  <1>1. u \in ProtocolState BY ZenonT(60), ConfigAssumption DEF ProtocolState, Option
  <1>2. e.type # "SetMultiView" OBVIOUS
  <1>3. /\ SameWork(s, u) /\ SameDisplay(s, u)
        /\ u.ws_state = s.ws_state /\ u.phase = s.phase
        /\ u.phase_deadline = OBSERVATION_MS /\ u.effects = s.effects
    BY DEF SameWork, SameDisplay, ProtocolState
  <1> HIDE DEF u, e
  <1>4. Carries(s, u) BY <1>3 DEF Carries, Tidy, NoViewCommand, SameWork
  <1>5. LET t == Emit(u, e)
        IN  /\ SameWork(u, t) /\ SameDisplay(u, t) /\ Carries(u, t)
            /\ t.ws_state = u.ws_state /\ t.phase = u.phase
            /\ t.phase_deadline = u.phase_deadline
    BY <1>1, <1>2, EmitFields
  <1> QED BY <1>3, <1>4, <1>5 DEF RequestObservation, SameWork, SameDisplay, Carries, u, e

(* What a concatenation holds. *)
LEMMA Concatenated ==
    ASSUME NEW S, NEW p \in Seq(S), NEW q \in Seq(S)
    PROVE  /\ p \o q \in Seq(S) /\ Len(p \o q) = Len(p) + Len(q)
           /\ \A k \in 1 .. Len(p) + Len(q) :
                (p \o q)[k] = IF k <= Len(p) THEN p[k] ELSE q[k - Len(p)]
  <1>1. p \o q \in Seq(S) OBVIOUS
  <1>2. Len(p \o q) = Len(p) + Len(q) OBVIOUS
  <1>3. ASSUME NEW k \in 1 .. Len(p) + Len(q)
        PROVE  (p \o q)[k] = IF k <= Len(p) THEN p[k] ELSE q[k - Len(p)]
    <2>1. Len(p) \in Nat /\ Len(q) \in Nat OBVIOUS
    <2>2. k <= Len(p) => (p \o q)[k] = p[k] BY <2>1
    <2>3. ~(k <= Len(p)) => (p \o q)[k] = q[k - Len(p)] BY <2>1
    <2> QED BY <2>2, <2>3
  <1> QED BY <1>1, <1>2, <1>3

(* Removing one entry keeps the others, in their order. *)
LEMMA RemovedEntries ==
    ASSUME NEW S, NEW seq \in Seq(S), NEW i \in 1 .. Len(seq)
    PROVE  /\ Removed(seq, i) \in Seq(S)
           /\ Len(Removed(seq, i)) = Len(seq) - 1
           /\ \A k \in 1 .. Len(seq) - 1 :
                Removed(seq, i)[k] = IF k < i THEN seq[k] ELSE seq[k + 1]
  <1> DEFINE a == SubSeq(seq, 1, i - 1)
             b == SubSeq(seq, i + 1, Len(seq))
  <1>1. /\ a \in Seq(S) /\ Len(a) = i - 1
        /\ \A k \in 1 .. i - 1 : a[k] = seq[k]
    OBVIOUS
  <1>2. /\ b \in Seq(S) /\ Len(b) = Len(seq) - i
        /\ \A k \in 1 .. Len(seq) - i : b[k] = seq[k + i]
    OBVIOUS
  <1> HIDE DEF a, b
  <1>3. /\ a \o b \in Seq(S) /\ Len(a \o b) = Len(seq) - 1
        /\ \A k \in 1 .. Len(seq) - 1 :
             (a \o b)[k] = IF k <= Len(a) THEN a[k] ELSE b[k - Len(a)]
    <2>1. /\ a \o b \in Seq(S) /\ Len(a \o b) = Len(a) + Len(b)
          /\ \A k \in 1 .. Len(a) + Len(b) :
               (a \o b)[k] = IF k <= Len(a) THEN a[k] ELSE b[k - Len(a)]
      BY <1>1, <1>2, Concatenated, ZenonT(60)
    <2>2. Len(a) + Len(b) = Len(seq) - 1 BY <1>1, <1>2
    <2> QED BY ZenonT(40), <2>1, <2>2
  <1>4. ASSUME NEW k \in 1 .. Len(seq) - 1
        PROVE  (a \o b)[k] = IF k < i THEN seq[k] ELSE seq[k + 1]
    <2>1. CASE k < i BY <1>1, <1>3, <2>1
    <2>2. CASE ~(k < i)
      <3>1. k - (i - 1) \in 1 .. Len(seq) - i /\ ~(k <= Len(a)) BY <1>1, <2>2
      <3>2. (a \o b)[k] = b[k - (i - 1)] BY <1>1, <1>3, <3>1
      <3>3. b[k - (i - 1)] = seq[k - (i - 1) + i] BY <1>2, <3>1
      <3> QED BY <2>2, <3>2, <3>3
    <2> QED BY ZenonT(60), <2>1, <2>2
  <1> QED BY ZenonT(60), <1>3, <1>4 DEF Removed, a, b

(* archive_request keeps the history within its limit and its ids distinct, and puts *)
(* the request last; nothing else changes.                                         *)
LEMMA ArchiveRequestFields ==
    ASSUME NEW s \in ProtocolState, NEW request \in EnterRequest, NEW status \in FinalStatus
    PROVE  LET t == ArchiveRequest(s, request, status)
           IN  /\ t = [s EXCEPT !.request_history = t.request_history]
               /\ Tidy(s) => Tidy(t)
               /\ Len(t.request_history) \in DOMAIN t.request_history
               /\ t.request_history[Len(t.request_history)].request_id = request.request_id
               /\ t.request_history[Len(t.request_history)].status = status
  <1> DEFINE same == Archived(s, request.request_id)
             history == s.request_history
             others == IF same = {} THEN history ELSE Removed(history, Min(same))
             excess == IF Len(others) >= RetainedRequests
                       THEN Len(others) - RetainedRequests + 1 ELSE 0
             grantEpoch == IF request.grant = None THEN None ELSE request.grant.grant_epoch
             entry == [request_id |-> request.request_id, target |-> request.target,
                       request_epoch |-> request.request_epoch, lease |-> request.lease.id,
                       grant_epoch |-> grantEpoch, status |-> status]
             kept == SubSeq(others, excess + 1, Len(others))
             new == Append(kept, entry)
             Distinct(h) == \A i, j \in DOMAIN h : h[i].request_id = h[j].request_id => i = j
             Without(h) == \A i \in DOMAIN h : h[i].request_id # request.request_id
  <1>1. history \in Seq(ArchivedRequest) BY DEF ProtocolState
  <1>2. same # {} => Min(same) \in 1 .. Len(history) /\ Min(same) \in same
    <2>1. same # {} => Min(same) \in 1 .. Len(history) BY ArchivedPositions
    <2>2. same \in SUBSET Nat BY SMTT(40), <1>1 DEF Archived
    <2> QED BY <2>1, <2>2, LeastNatural
  <1>3. others \in Seq(ArchivedRequest) /\ (Distinct(history) => Distinct(others) /\ Without(others))
    <2>1. CASE same = {} BY SMTT(40), <1>1, <2>1 DEF Archived
    <2>2. CASE same # {}
      <3> DEFINE m == Min(same)
      <3>1. m \in 1 .. Len(history) /\ history[m].request_id = request.request_id
        BY <1>1, <1>2, <2>2 DEF Archived
      <3> HIDE DEF m
      <3>2. /\ Removed(history, m) \in Seq(ArchivedRequest)
            /\ Len(Removed(history, m)) = Len(history) - 1
            /\ \A k \in 1 .. Len(history) - 1 :
                Removed(history, m)[k] = IF k < m THEN history[k] ELSE history[k + 1]
        BY ZenonT(60), <1>1, <3>1, RemovedEntries
      <3> DEFINE rest == Removed(history, m)
      <3> HIDE DEF rest, history
      <3>3. DOMAIN rest = 1 .. Len(history) - 1 /\ DOMAIN history = 1 .. Len(history)
        BY <1>1, <3>2 DEF rest
      <3>4. ASSUME Distinct(history) PROVE Distinct(rest) /\ Without(rest)
        <4> DEFINE place(k) == IF k < m THEN k ELSE k + 1
        <4>1. Len(history) \in Nat BY <1>1
        <4>2. \A k \in DOMAIN rest : /\ place(k) \in DOMAIN history /\ place(k) # m
                                     /\ rest[k] = history[place(k)]
          BY <3>1, <3>2, <3>3, <4>1 DEF rest
        <4>3. \A k, l \in DOMAIN rest : place(k) = place(l) => k = l BY <3>1, <3>3, <4>1
        <4>4. m \in DOMAIN history BY <3>1, <3>3
        <4> HIDE DEF place
        <4> QED BY <3>1, <3>4, <4>2, <4>3, <4>4
      <3> QED BY <2>2, <3>2, <3>4 DEF rest, m
    <2> QED BY ZenonT(60), <2>1, <2>2
  <1> HIDE DEF others, history
  <1>4. RetainedRequests \in Nat \ {0} BY ConfigAssumption
  <1>5. excess \in Nat /\ excess <= Len(others) /\ Len(others) - excess < RetainedRequests
    BY <1>3, <1>4
  <1> HIDE DEF excess
  <1>6. /\ kept \in Seq(ArchivedRequest) /\ Len(kept) = Len(others) - excess
        /\ \A k \in 1 .. Len(kept) : kept[k] = others[k + excess]
    BY <1>3, <1>5
  <1> HIDE DEF kept, entry
  <1>7. /\ DOMAIN kept = 1 .. Len(kept) /\ DOMAIN others = 1 .. Len(others)
        /\ DOMAIN new = 1 .. Len(kept) + 1 /\ Len(new) = Len(kept) + 1
        /\ \A k \in 1 .. Len(kept) : new[k] = kept[k]
        /\ new[Len(kept) + 1] = entry
    BY <1>3, <1>6
  <1> HIDE DEF new
  <1>8. entry.request_id = request.request_id /\ entry.status = status BY DEF entry
  <1>9. Distinct(others) /\ Without(others) => Distinct(new)
    <2> SUFFICES ASSUME Distinct(others), Without(others), NEW i \in DOMAIN new,
                        NEW j \in DOMAIN new, new[i].request_id = new[j].request_id
                 PROVE  i = j
      OBVIOUS
    <2>0. Len(kept) \in Nat BY <1>6
    <2>1. \A k \in 1 .. Len(kept) : /\ k + excess \in DOMAIN others
                                    /\ new[k] = others[k + excess]
                                    /\ new[k].request_id # request.request_id
      BY <1>5, <1>6, <1>7
    <2>2. \A k \in DOMAIN new : k \in 1 .. Len(kept) \/ k = Len(kept) + 1 BY <2>0, <1>7
    <2>3. CASE i \in 1 .. Len(kept) /\ j \in 1 .. Len(kept)
      <3>1. i + excess = j + excess BY <2>1, <2>3
      <3> QED BY <1>5, <2>3, <3>1
    <2>4. ~(i \in 1 .. Len(kept) /\ j = Len(kept) + 1) BY <1>7, <1>8, <2>1
    <2>5. ~(j \in 1 .. Len(kept) /\ i = Len(kept) + 1) BY <1>7, <1>8, <2>1
    <2> QED BY SMTT(40), <2>2, <2>3, <2>4, <2>5
  <1>10. Len(new) <= RetainedRequests BY <1>3, <1>4, <1>5, <1>6, <1>7
  <1>11. ArchiveRequest(s, request, status) = [s EXCEPT !.request_history = new]
    BY DEF ArchiveRequest, new, kept, entry, excess, others, history, grantEpoch
  <1>12. [s EXCEPT !.request_history = new].request_history = new BY DEF ProtocolState
  <1> QED BY SMTT(40), <1>3, <1>6, <1>7, <1>8, <1>9, <1>10, <1>11, <1>12 DEF Tidy, history

(* Marking the session's request as a fallback keeps the history's ids and the       *)
(* cancelled entries.                                                              *)
LEMMA FailCommittedRequestFields ==
    ASSUME NEW s \in ProtocolState
    PROVE  LET t == FailCommittedRequest(s)
           IN  /\ t = [s EXCEPT !.request_history = t.request_history]
               /\ Tidy(s) => Tidy(t)
               /\ \A id : HasCancelled(s, id) => HasCancelled(t, id)
  <1> DEFINE at == IF s.active_session = None THEN {}
                   ELSE Archived(s, s.active_session.request_id)
             m == Max(at)
             history == s.request_history
             t == FailCommittedRequest(s)
  <1>1. CASE at # {} /\ history[m].status = "Committed"
    <2> DEFINE entry == [history[m] EXCEPT !.status = "Fallback"]
               new == [history EXCEPT ![m] = entry]
    <2>1. m \in 1 .. Len(history) BY <1>1, ArchivedPositions
    <2>2. t = [s EXCEPT !.request_history = new] BY <1>1 DEF FailCommittedRequest
    <2>3. t.request_history = new BY <2>2 DEF ProtocolState
    <2>4. history \in Seq(ArchivedRequest) BY DEF ProtocolState
    <2>5. history[m] \in ArchivedRequest BY <2>1, <2>4
    <2>6. entry.request_id = history[m].request_id /\ entry.status = "Fallback"
      BY <2>5 DEF ArchivedRequest
    <2> HIDE DEF entry, t, history, m
    <2>7. /\ DOMAIN history = 1 .. Len(history) /\ DOMAIN new = DOMAIN history
          /\ Len(new) = Len(history)
      BY <2>1, <2>4
    <2>8. \A k \in DOMAIN history : new[k].request_id = history[k].request_id
      BY <2>6, <2>7
    <2>9. \A k \in DOMAIN history : history[k].status = "Cancelled" => new[k] = history[k]
      BY <1>1, <2>7
    <2> HIDE DEF new
    <2>10. Tidy(s) => Tidy(t) BY <2>3, <2>7, <2>8 DEF Tidy, history
    <2>11. \A id : HasCancelled(s, id) => HasCancelled(t, id)
      BY <2>3, <2>7, <2>9 DEF HasCancelled, history
    <2> QED BY <2>2, <2>3, <2>10, <2>11 DEF t
  <1>2. CASE ~(at # {} /\ history[m].status = "Committed")
    <2>1. t = s BY <1>2 DEF FailCommittedRequest
    <2>2. s = [s EXCEPT !.request_history = s.request_history] BY DEF ProtocolState
    <2> QED BY <2>1, <2>2
  <1> QED BY <1>1, <1>2

(* issue_fallback_command raises the switch epoch and arms the command deadline. *)
LEMMA IssueFallbackCommandFields ==
    ASSUME NEW s \in ProtocolState
    PROVE  LET t == IssueFallbackCommand(s)
           IN  /\ SameWork(s, t) /\ Carries(s, t)
               /\ t.ws_state = s.ws_state /\ t.phase = "FallbackCommandPending"
               /\ t.phase_deadline = COMMAND_MS
               /\ t.switch_epoch = s.switch_epoch + 1
               /\ t.verified_epoch = s.verified_epoch
               /\ t.fallback_required = s.fallback_required
               /\ t.pending_multiview = s.pending_multiview
               /\ t.manual_recovery_target = s.manual_recovery_target
  <1> DEFINE epoch == s.switch_epoch + 1
             u == [s EXCEPT !.switch_epoch = epoch, !.commanded_input = Server,
                            !.phase = "FallbackCommandPending",
                            !.phase_deadline = COMMAND_MS]
             e == [type |-> "SetInput", target |-> Server, switch_epoch |-> epoch,
                   fallback |-> TRUE]
  <1>1. epoch \in Nat BY DEF ProtocolState
  <1>2. e.type # "SetMultiView" OBVIOUS
  <1> HIDE DEF epoch, e
  <1>3. u \in ProtocolState
    BY ZenonT(60), <1>1, ConfigAssumption DEF ProtocolState, Option, Phases
  <1>4. /\ SameWork(s, u) /\ u.ws_state = s.ws_state /\ u.phase = "FallbackCommandPending"
        /\ u.phase_deadline = COMMAND_MS /\ u.switch_epoch = epoch
        /\ u.verified_epoch = s.verified_epoch
        /\ u.fallback_required = s.fallback_required
        /\ u.pending_multiview = s.pending_multiview
        /\ u.manual_recovery_target = s.manual_recovery_target
        /\ u.effects = s.effects
    BY DEF SameWork, ProtocolState
  <1> HIDE DEF u
  <1>5. Carries(s, u) BY <1>4 DEF Carries, Tidy, NoViewCommand, SameWork
  <1>6. LET t == Emit(u, e)
        IN  /\ SameWork(u, t) /\ SameDisplay(u, t) /\ Carries(u, t)
            /\ t.ws_state = u.ws_state /\ t.phase = u.phase
            /\ t.phase_deadline = u.phase_deadline
    BY <1>2, <1>3, EmitFields
  <1>7. Emit(u, e).manual_recovery_target = u.manual_recovery_target
    BY <1>3 DEF Emit, ProtocolState
  <1> QED BY <1>4, <1>5, <1>6, <1>7
          DEF IssueFallbackCommand, SameWork, SameDisplay, Carries, u, e, epoch
================================================================================
