------------------------------- MODULE MoveProofs -------------------------------
(***************************************************************************)
(* The moves of ProtocolMoves that the helpers of protocol.rs make, the passing *)
(* of time, and the handlers of what the transport and the TV report.            *)
(***************************************************************************)
EXTENDS ProtocolProofs

(* After begin_fallback_with_restore nobody else has the input or asks for it, *)
(* whatever the state before.                                                  *)
LEMMA BeginFallbackWithRestoreFields ==
    ASSUME NEW s \in ProtocolState, NEW restore \in BOOLEAN
    PROVE  LET t == BeginFallbackWithRestore(s, restore)
           IN  /\ Fallen(t) /\ Carries(s, t)
               /\ t.fallback_required = restore /\ t.ws_state = s.ws_state
               /\ t.request_epoch = s.request_epoch /\ t.switch_epoch >= s.switch_epoch
               /\ s.active_request = None =>
                    \A id : HasCancelled(s, id) => HasCancelled(t, id)
               /\ s.manual_recovery_target # Server => t.manual_recovery_target # Server
  <1> DEFINE request == s.active_request
             recovery == IF request # None /\ RoutedRemote(request.target)
                         THEN request.target ELSE s.manual_recovery_target
             failed == FailCommittedRequest(s)
             free == ReleaseToServer(failed)
             released == [free EXCEPT
                            !.manual_recovery_target = recovery,
                            !.fallback_required = restore,
                            !.verified_epoch = None,
                            !.pending_multiview = None,
                            !.observation_in_flight = None,
                            !.next_signal_poll = None,
                            !.active_request = None]
             archived == IF request = None THEN released
                         ELSE ArchiveRequest(released, request, "Fallback")
             phase == IF restore \/ ~DaemonHealthy(s) THEN "FallbackDeferred" ELSE "Idle"
             Same(u) == /\ u.ws_state = s.ws_state /\ u.request_epoch = s.request_epoch
                        /\ u.switch_epoch = s.switch_epoch /\ u.effects = s.effects
             Bare(u) == /\ u.active_session = None
                        /\ u.keyboard_owner = Server /\ u.pointer_owner = Server
             Clear(u) == /\ u.manual_recovery_target = recovery
                         /\ u.fallback_required = restore /\ u.pending_multiview = None
                         /\ u.active_request = None
  <1>1. request \in Option(EnterRequest) /\ s.switch_epoch \in Nat BY DEF ProtocolState
  <1>2. recovery \in Option(Hosts) BY <1>1 DEF ProtocolState, EnterRequest, Option
  <1>3. s.manual_recovery_target # Server => recovery # Server BY DEF RoutedRemote
  <1>4. failed \in ProtocolState BY SMTT(30), FailCommittedRequestType
  <1>5. /\ failed = [s EXCEPT !.request_history = failed.request_history]
        /\ Tidy(s) => Tidy(failed)
        /\ \A id : HasCancelled(s, id) => HasCancelled(failed, id)
    BY FailCommittedRequestFields
  <1>6. free \in ProtocolState BY <1>4, ReleaseToServerType
  <1> HIDE DEF failed, recovery, request
  <1>7. Same(failed) BY SMTT(30), <1>5 DEF ProtocolState
  <1>8. Same(free) /\ Bare(free) /\ free.request_history = failed.request_history
    BY <1>4, <1>7 DEF ReleaseToServer, ProtocolState
  <1> HIDE DEF free
  <1>9. released \in ProtocolState BY ZenonT(60), <1>2, <1>6, QuiescentType
  <1>10. /\ Same(released) /\ Bare(released) /\ Clear(released)
         /\ released.request_history = failed.request_history
    BY <1>6, <1>8 DEF ProtocolState
  <1> HIDE DEF released
  <1>11. Tidy(s) => Tidy(released) BY <1>5, <1>10 DEF Tidy
  <1>12. \A id : HasCancelled(s, id) => HasCancelled(released, id)
    BY <1>5, <1>10 DEF HasCancelled
  <1>13. archived \in ProtocolState
    BY SMTT(40), <1>1, <1>9, ArchiveRequestType DEF Option, FinalStatus
  <1>14. /\ Same(archived) /\ Bare(archived) /\ Clear(archived)
         /\ Tidy(s) => Tidy(archived)
         /\ request = None => archived = released
    <2>1. CASE request = None BY <1>10, <1>11, <2>1
    <2>2. CASE request # None
      <3>1. request \in EnterRequest /\ "Fallback" \in FinalStatus
        BY <1>1, <2>2 DEF Option, FinalStatus
      <3>2. /\ archived = [released EXCEPT !.request_history = archived.request_history]
            /\ Tidy(released) => Tidy(archived)
        BY <1>9, <2>2, <3>1, ArchiveRequestFields
      <3> HIDE DEF archived
      <3>3. Same(archived) /\ Bare(archived) /\ Clear(archived)
        BY <1>9, <1>10, <3>2 DEF ProtocolState
      <3> QED BY <1>11, <2>2, <3>2, <3>3
    <2> QED BY SMTT(40), <2>1, <2>2
  <1> HIDE DEF archived
  <1>15. Carries(s, archived) BY <1>14 DEF Carries, NoViewCommand
  <1>16. CASE restore /\ DaemonHealthy(s)
    <2> DEFINE t == IssueFallbackCommand(archived)
    <2>1. BeginFallbackWithRestore(s, restore) = t
      BY SMTT(30), <1>16 DEF BeginFallbackWithRestore, archived, released, free, failed, recovery, request
    <2>2. /\ SameWork(archived, t) /\ Carries(archived, t)
          /\ t.ws_state = archived.ws_state /\ t.phase = "FallbackCommandPending"
          /\ t.phase_deadline = COMMAND_MS
          /\ t.switch_epoch = archived.switch_epoch + 1
          /\ t.fallback_required = archived.fallback_required
          /\ t.pending_multiview = archived.pending_multiview
          /\ t.manual_recovery_target = archived.manual_recovery_target
      BY <1>13, IssueFallbackCommandFields
    <2> HIDE DEF t
    <2>3. Fallen(t) BY <1>14, <1>16, <2>2 DEF Fallen, SameWork, DaemonHealthy
    <2>4. Carries(s, t) BY <1>15, <2>2 DEF Carries
    <2>5. request = None => \A id : HasCancelled(s, id) => HasCancelled(t, id)
      BY <1>12, <1>14, <2>2 DEF HasCancelled, SameWork
    <2> QED BY <1>1, <1>3, <1>14, <2>1, <2>2, <2>3, <2>4, <2>5 DEF SameWork, request
  <1>17. CASE ~(restore /\ DaemonHealthy(s))
    <2> DEFINE t == [archived EXCEPT !.phase = phase, !.phase_deadline = None]
    <2>1. BeginFallbackWithRestore(s, restore) = t
      BY SMTT(30), <1>17 DEF BeginFallbackWithRestore, archived, released, free, failed, recovery, request
    <2> HIDE DEF phase
    <2>2. /\ SameWork(archived, t) /\ SameDisplay(archived, t)
          /\ t.ws_state = archived.ws_state /\ t.phase = phase
          /\ t.phase_deadline = None /\ t.effects = archived.effects
          /\ t.manual_recovery_target = archived.manual_recovery_target
      BY <1>13 DEF SameWork, SameDisplay, ProtocolState
    <2> HIDE DEF t
    <2>3. Fallen(t)
      BY SMTT(40), <1>14, <1>17, <2>2 DEF Fallen, SameWork, SameDisplay, DaemonHealthy, phase
    <2>4. Carries(s, t)
      BY <1>15, <2>2 DEF Carries, Tidy, NoViewCommand, SameWork
    <2>5. request = None => \A id : HasCancelled(s, id) => HasCancelled(t, id)
      BY SMTT(40), <1>12, <1>14, <2>2 DEF HasCancelled, SameWork
    <2> QED BY <1>1, <1>3, <1>14, <2>1, <2>2, <2>3, <2>4, <2>5
            DEF SameWork, SameDisplay, request
  <1> QED BY <1>16, <1>17

(* A fallback from u is one from s, when u is s but for a request that has been       *)
(* archived and for what the move does not read.                                     *)
LEMMA FallbackFalls ==
    ASSUME NEW s \in ProtocolState, NEW u \in ProtocolState, NEW restore \in BOOLEAN,
           Carries(s, u), u.request_epoch = s.request_epoch, u.switch_epoch >= s.switch_epoch,
           s.fallback_required => restore,
           MayShow(s) => \/ restore
                         \/ /\ u.active_request = None
                            /\ HasCancelled(u, s.active_request.request_id),
           s.active_request = None =>
                /\ u.active_request = None
                /\ \A id : HasCancelled(s, id) => HasCancelled(u, id)
    PROVE  LET t == BeginFallbackWithRestore(u, restore)
           IN  /\ Falls(s, t) /\ t.ws_state = u.ws_state
               /\ u.manual_recovery_target # Server => t.manual_recovery_target # Server
  <1> DEFINE t == BeginFallbackWithRestore(u, restore)
  <1>1. /\ Fallen(t) /\ Carries(u, t)
        /\ t.fallback_required = restore /\ t.ws_state = u.ws_state
        /\ t.request_epoch = u.request_epoch /\ t.switch_epoch >= u.switch_epoch
        /\ u.active_request = None => \A id : HasCancelled(u, id) => HasCancelled(t, id)
        /\ u.manual_recovery_target # Server => t.manual_recovery_target # Server
    BY BeginFallbackWithRestoreFields
  <1>2. s.switch_epoch \in Nat /\ u.switch_epoch \in Nat BY DEF ProtocolState
  <1>3. t.switch_epoch \in Nat
    BY ZenonT(60), BeginFallbackWithRestoreType DEF ProtocolState
  <1> HIDE DEF t
  <1>4. t.switch_epoch >= s.switch_epoch BY <1>1, <1>2, <1>3
  <1>5. Carries(s, t) BY <1>1 DEF Carries
  <1>6. MayShow(s) => t.fallback_required \/ HasCancelled(t, s.active_request.request_id)
    BY <1>1
  <1>7. s.active_request = None => \A id : HasCancelled(s, id) => HasCancelled(t, id)
    BY <1>1
  <1> QED BY <1>1, <1>4, <1>5, <1>6, <1>7 DEF Falls, t

(* The request of s, if any, is still there in u, and so is all that calls for a         *)
(* fallback.                                                                         *)
Leads(s, u) ==
    /\ Carries(s, u)
    /\ u.request_epoch = s.request_epoch /\ u.switch_epoch >= s.switch_epoch
    /\ s.fallback_required => u.fallback_required
    /\ MayShow(s) => MayShow(u)
    /\ s.active_request = None =>
        /\ u.active_request = None
        /\ \A id : HasCancelled(s, id) => HasCancelled(u, id)

(* begin_fallback makes the move Falls: a display that may show the target of the    *)
(* request is restored.                                                            *)
LEMMA BeginFallbackMove ==
    ASSUME NEW s \in ProtocolState, NEW u \in ProtocolState, Leads(s, u)
    PROVE  LET t == BeginFallback(u)
           IN  /\ Falls(s, t) /\ t.ws_state = u.ws_state
               /\ u.manual_recovery_target # Server => t.manual_recovery_target # Server
  <1>1. DisplayRestoreRequired(u) \in BOOLEAN BY DEF DisplayRestoreRequired, ProtocolState
  <1>2. MayShow(s) => DisplayRestoreRequired(u)
    BY DEF Leads, MayShow, DisplayRestoreRequired, RoutedRemote
  <1>3. s.fallback_required => DisplayRestoreRequired(u)
    BY DEF Leads, DisplayRestoreRequired
  <1> QED BY <1>1, <1>2, <1>3, FallbackFalls DEF BeginFallback, Leads

(* So does the fallback of a failed session. *)
LEMMA SessionFailureMove ==
    ASSUME NEW s \in ProtocolState, NEW u \in ProtocolState, Leads(s, u)
    PROVE  LET t == BeginActiveSessionFailureFallback(u)
           IN  /\ Falls(s, t) /\ t.ws_state = u.ws_state
               /\ u.manual_recovery_target # Server => t.manual_recovery_target # Server
  <1> DEFINE target == u.active_session.target
             v == [u EXCEPT !.manual_recovery_target = target]
  <1>1. CASE u.active_session # None /\ RoutedRemote(target)
    <2>1. target \in Option(Hosts) /\ target # Server
      BY <1>1 DEF ProtocolState, ActiveSession, Option, RoutedRemote
    <2>2. v \in ProtocolState BY <2>1, RecoveryUpdate
    <2>3. /\ v.active_request = u.active_request /\ v.request_epoch = u.request_epoch
          /\ v.switch_epoch = u.switch_epoch /\ v.fallback_required = u.fallback_required
          /\ v.request_history = u.request_history /\ v.effects = u.effects
          /\ v.manual_recovery_target = target /\ v.ws_state = u.ws_state
      BY DEF ProtocolState
    <2>4. BeginActiveSessionFailureFallback(u) = BeginFallback(v)
      BY <1>1 DEF BeginActiveSessionFailureFallback
    <2> HIDE DEF v
    <2>5. Leads(s, v)
      BY <2>3 DEF Leads, Carries, Tidy, NoViewCommand, MayShow, HasCancelled
    <2> QED BY SMTT(40), <2>1, <2>2, <2>3, <2>4, <2>5, BeginFallbackMove
  <1>2. CASE ~(u.active_session # None /\ RoutedRemote(target))
    BY <1>2, BeginFallbackMove DEF BeginActiveSessionFailureFallback
  <1> QED BY <1>1, <1>2

(* A state that differs in nothing the moves read leads to the same falls. *)
LEMMA SeesLeads ==
    ASSUME NEW s \in ProtocolState, NEW u \in ProtocolState, SameWork(s, u), SameDisplay(s, u),
           Carries(s, u)
    PROVE  Leads(s, u)
  <1>1. s.switch_epoch \in Nat BY DEF ProtocolState
  <1> QED BY <1>1 DEF Leads, SameWork, SameDisplay, MayShow, HasCancelled

(* A state makes the move Keeps to itself. *)
LEMMA KeepsItself ==
    ASSUME NEW s \in ProtocolState
    PROVE  Keeps(s, s) /\ Sees(s, s) /\ Leads(s, s)
  <1>1. s.switch_epoch \in Nat BY DEF ProtocolState
  <1> QED BY <1>1 DEF Keeps, Sees, Leads, SameWork, SameDisplay, Carries

(* The result of an event is the new state or the old one. *)
LEMMA ValidatedNext ==
    ASSUME NEW s, NEW new
    PROVE  Validated(s, new).next \in {s, new}
  BY DEF Validated, Ok, Err

(* store_observation changes what the TV showed. *)
LEMMA StoreObservationFields ==
    ASSUME NEW s \in ProtocolState, NEW epoch, NEW mode, NEW input, NEW signals
    PROVE  LET t == StoreObservation(s, epoch, mode, input, signals)
           IN  Sees(s, t) /\ t.observation_in_flight = s.observation_in_flight
  <1> DEFINE signal == [h \in DisplayHosts |-> [present |-> signals[h], switch_epoch |-> epoch]]
             t == [s EXCEPT !.tv_mode = mode, !.observed_input = input, !.input_signal = signal]
  <1> HIDE DEF signal
  <1>1. /\ SameWork(s, t) /\ SameDisplay(s, t)
        /\ t.ws_state = s.ws_state /\ t.phase = s.phase /\ t.phase_deadline = s.phase_deadline
        /\ t.effects = s.effects /\ t.observation_in_flight = s.observation_in_flight
    BY DEF SameWork, SameDisplay, ProtocolState
  <1> HIDE DEF t
  <1>2. Carries(s, t) BY <1>1 DEF Carries, Tidy, NoViewCommand, SameWork
  <1> QED BY <1>1, <1>2 DEF StoreObservation, Sees, t, signal

(* finish_fallback gives the input to the server and leaves the request alone. *)
LEMMA FinishFallbackMove ==
    ASSUME NEW s \in ProtocolState, NEW u \in ProtocolState,
           SameWork(s, u), SameDisplay(s, u), Carries(s, u),
           s.fallback_required \/ ~DaemonHealthy(s), DaemonHealthy(u)
    PROVE  Finishes(s, FinishFallback(u))
  <1> DEFINE free == ReleaseToServer(u)
             off == FALSE
             t == [free EXCEPT !.fallback_required = off, !.phase = "Idle",
                               !.phase_deadline = None, !.observation_in_flight = None,
                               !.next_signal_poll = None, !.verified_epoch = u.switch_epoch]
  <1>1. free \in ProtocolState BY ReleaseToServerType
  <1>2. /\ free.ws_state = u.ws_state /\ free.active_session = None
        /\ free.keyboard_owner = Server /\ free.pointer_owner = Server
        /\ free.active_request = u.active_request /\ free.request_epoch = u.request_epoch
        /\ free.request_history = u.request_history /\ free.switch_epoch = u.switch_epoch
        /\ free.pending_multiview = u.pending_multiview /\ free.effects = u.effects
    BY DEF ReleaseToServer, ProtocolState
  <1>3. off = FALSE OBVIOUS
  <1> HIDE DEF free, off
  <1>4. /\ t.ws_state = free.ws_state /\ t.active_session = free.active_session
        /\ t.keyboard_owner = free.keyboard_owner /\ t.pointer_owner = free.pointer_owner
        /\ t.active_request = free.active_request /\ t.request_epoch = free.request_epoch
        /\ t.request_history = free.request_history /\ t.switch_epoch = free.switch_epoch
        /\ t.pending_multiview = free.pending_multiview /\ t.effects = free.effects
        /\ t.phase = "Idle" /\ t.fallback_required = off
    BY <1>1 DEF ProtocolState
  <1>5. FinishFallback(u) = t BY DEF FinishFallback, free, off
  <1> HIDE DEF t
  <1>6. Carries(s, t) BY <1>2, <1>4 DEF Carries, Tidy, NoViewCommand
  <1> QED BY <1>2, <1>3, <1>4, <1>5, <1>6
          DEF Finishes, SameWork, SameDisplay, DaemonHealthy

(* accept_manual_display leaves everything to whoever sits at the TV. *)
LEMMA AcceptManualDisplayMove ==
    ASSUME NEW s \in ProtocolState, NEW u \in ProtocolState,
           SameWork(s, u), SameDisplay(s, u), Carries(s, u), ManualDisplayObserved(u)
    PROVE  Accepts(s, AcceptManualDisplay(u))
  <1> DEFINE free == ReleaseToServer(u)
             off == FALSE
             t == [free EXCEPT !.commanded_input = None, !.manual_recovery_target = None,
                               !.fallback_required = off, !.pending_multiview = None,
                               !.phase = "Idle", !.phase_deadline = None,
                               !.observation_in_flight = None, !.next_signal_poll = None]
  <1>1. free \in ProtocolState BY ReleaseToServerType
  <1>2. /\ free.active_session = None
        /\ free.keyboard_owner = Server /\ free.pointer_owner = Server
        /\ free.active_request = u.active_request /\ free.request_epoch = u.request_epoch
        /\ free.grant_epoch = u.grant_epoch
        /\ free.request_history = u.request_history /\ free.switch_epoch = u.switch_epoch
        /\ free.effects = u.effects
    BY DEF ReleaseToServer, ProtocolState
  <1>3. off = FALSE OBVIOUS
  <1> HIDE DEF free, off
  <1>4. /\ t.active_session = free.active_session
        /\ t.keyboard_owner = free.keyboard_owner /\ t.pointer_owner = free.pointer_owner
        /\ t.active_request = free.active_request /\ t.request_epoch = free.request_epoch
        /\ t.grant_epoch = free.grant_epoch
        /\ t.request_history = free.request_history /\ t.switch_epoch = free.switch_epoch
        /\ t.effects = free.effects /\ t.pending_multiview = None
        /\ t.phase = "Idle" /\ t.fallback_required = off
    BY <1>1 DEF ProtocolState
  <1>5. AcceptManualDisplay(u) = t BY DEF AcceptManualDisplay, free, off
  <1> HIDE DEF t
  <1>6. Carries(s, t) BY <1>2, <1>4 DEF Carries, Tidy, NoViewCommand
  <1>7. SameWork(s, t) BY <1>2, <1>4 DEF SameWork, ManualDisplayObserved
  <1> QED BY <1>2, <1>3, <1>4, <1>5, <1>6, <1>7
          DEF Accepts, SameWork, SameDisplay, ManualDisplayObserved

(* issue_grant gives the request the next grant, for its own display command. *)
LEMMA IssueGrantFields ==
    ASSUME NEW s \in ProtocolState, s.active_request \in EnterRequest,
           s.active_request.switch_epoch \in Nat
    PROVE  LET t == IssueGrant(s)
           IN  /\ SameRequest(s, t) /\ Granted(s, t) /\ Carries(s, t)
               /\ t.ws_state = s.ws_state
               /\ t.active_request.switch_epoch = s.active_request.switch_epoch
               /\ t.active_session = s.active_session
               /\ t.keyboard_owner = s.keyboard_owner /\ t.pointer_owner = s.pointer_owner
               /\ t.request_epoch = s.request_epoch /\ t.request_history = s.request_history
               /\ t.switch_epoch = s.switch_epoch
               /\ t.fallback_required = s.fallback_required
               /\ t.pending_multiview = s.pending_multiview
  <1> DEFINE request == s.active_request
             epoch == s.grant_epoch + 1
             expires == IF GRANT_MS < request.lease.expires
                        THEN GRANT_MS ELSE request.lease.expires
             grant == [grant_epoch |-> epoch,
                       switch_epoch |-> request.switch_epoch, expires |-> expires]
             granted == [request EXCEPT !.status = "Grant", !.deadline = expires,
                                        !.grant = grant]
             t == [s EXCEPT !.grant_epoch = epoch, !.active_request = granted,
                            !.verified_epoch = request.switch_epoch,
                            !.phase = "GrantPending", !.phase_deadline = expires]
  <1>1. IssueGrant(s) = t BY DEF IssueGrant
    <1>3. request \in EnterRequest OBVIOUS
  <1>4. expires = Sooner(GRANT_MS, request.lease.expires) BY DEF Sooner
  <1>a. request.lease.expires \in Nat BY DEF EnterRequest, LeaseIdentity
  <1>b. expires \in Nat BY <1>a, ConfigAssumption
  <1>c. epoch \in Nat BY DEF ProtocolState
  <1> HIDE DEF expires, epoch
  <1>d. grant \in GrantIdentity BY <1>b, <1>c DEF GrantIdentity
  <1> HIDE DEF request, grant
  <1>5. /\ granted.request_id = request.request_id /\ granted.target = request.target
        /\ granted.request_epoch = request.request_epoch /\ granted.lease = request.lease
        /\ granted.status = "Grant" /\ granted.grant = grant
        /\ granted.switch_epoch = request.switch_epoch
    BY <1>3 DEF EnterRequest
  <1>6. granted \in EnterRequest
    BY ZenonT(60), <1>3, <1>b, <1>d DEF EnterRequest, Option, LiveStatus
  <1> HIDE DEF granted
  <1>7. /\ t.active_request = granted /\ t.grant_epoch = epoch
        /\ t.verified_epoch = request.switch_epoch /\ t.phase = "GrantPending"
        /\ t.ws_state = s.ws_state /\ t.active_session = s.active_session
        /\ t.keyboard_owner = s.keyboard_owner /\ t.pointer_owner = s.pointer_owner
        /\ t.request_epoch = s.request_epoch /\ t.request_history = s.request_history
        /\ t.switch_epoch = s.switch_epoch /\ t.fallback_required = s.fallback_required
        /\ t.pending_multiview = s.pending_multiview /\ t.effects = s.effects
    BY DEF ProtocolState
  <1> HIDE DEF t
  <1>8. t.active_request \in EnterRequest BY <1>6, <1>7
  <1>9. Carries(s, t) BY <1>7 DEF Carries, Tidy, NoViewCommand
  <1>10. SameRequest(s, t)
    BY SMTT(40), <1>3, <1>5, <1>7, <1>8, NoneAssumption DEF SameRequest, request
  <1>11. Granted(s, t) BY SMTT(40), <1>4, <1>5, <1>7 DEF Granted, grant, epoch
  <1> QED BY <1>1, <1>5, <1>7, <1>9, <1>10, <1>11 DEF request

(* issue_grant, of a display seen to be verified, makes the move Grants. *)
LEMMA IssueGrantMove ==
    ASSUME NEW s \in ProtocolState, NEW u \in ProtocolState, Sees(s, u),
           s.phase = "Verifying", s.active_request # None,
           s.active_request.switch_epoch \in Nat
    PROVE  Grants(s, IssueGrant(u))
  <1>1. u.active_request = s.active_request /\ s.active_request \in EnterRequest
    BY DEF Sees, SameWork, ProtocolState, Option
  <1> DEFINE t == IssueGrant(u)
  <1>2. /\ SameRequest(u, t) /\ Granted(u, t) /\ Carries(u, t)
        /\ t.ws_state = u.ws_state
        /\ t.active_request.switch_epoch = u.active_request.switch_epoch
        /\ t.active_session = u.active_session
        /\ t.keyboard_owner = u.keyboard_owner /\ t.pointer_owner = u.pointer_owner
        /\ t.request_epoch = u.request_epoch /\ t.request_history = u.request_history
        /\ t.switch_epoch = u.switch_epoch
        /\ t.fallback_required = u.fallback_required
        /\ t.pending_multiview = u.pending_multiview
    BY <1>1, IssueGrantFields
  <1> HIDE DEF t
  <1>3. SameRequest(s, t) BY <1>1, <1>2 DEF SameRequest
  <1>4. Granted(s, t) BY <1>2 DEF Granted, Sees, SameWork
  <1>5. Carries(s, t) BY <1>2 DEF Carries, Sees
  <1> QED BY SMTT(40), <1>1, <1>2, <1>3, <1>4, <1>5 DEF Grants, Sees, SameWork, SameDisplay, t

(* begin_switch gives the request the next display command; a target without a  *)
(* display is granted at once.                                                 *)
LEMMA BeginSwitchFields ==
    ASSUME NEW s \in ProtocolState, s.active_request \in EnterRequest
    PROVE  Commands(s, BeginSwitch(s))
  <1> DEFINE epoch == s.switch_epoch + 1
             request == s.active_request
             target == request.target
             limit == COMMAND_MS + OBSERVATION_MS
             moved == [request EXCEPT !.status = "Switching", !.switch_epoch = epoch,
                                      !.deadline = limit]
             switching == [s EXCEPT !.switch_epoch = epoch, !.active_request = moved]
             commanded == [switching EXCEPT !.commanded_input = target,
                                            !.phase = "Switching",
                                            !.phase_deadline = COMMAND_MS]
             local == [switching EXCEPT !.commanded_input = None, !.phase_deadline = None]
             effect == [type |-> "SetInput", target |-> target, switch_epoch |-> epoch,
                        fallback |-> FALSE]
             Rest(u) == /\ u.active_request = moved /\ u.switch_epoch = epoch
                        /\ u.ws_state = s.ws_state /\ u.active_session = s.active_session
                        /\ u.keyboard_owner = s.keyboard_owner
                        /\ u.pointer_owner = s.pointer_owner
                        /\ u.request_epoch = s.request_epoch
                        /\ u.grant_epoch = s.grant_epoch
                        /\ u.request_history = s.request_history
                        /\ u.verified_epoch = s.verified_epoch
                        /\ u.fallback_required = s.fallback_required
                        /\ u.pending_multiview = s.pending_multiview
                        /\ u.effects = s.effects
  <1>1. epoch \in Nat BY DEF ProtocolState
  <1>2. target \in Hosts BY DEF EnterRequest
  <1>3. request \in EnterRequest OBVIOUS
  <1>4. limit \in Nat /\ COMMAND_MS \in Nat BY ConfigAssumption
  <1>5. effect.type # "SetMultiView" OBVIOUS
  <1> HIDE DEF epoch, target, request, limit
  <1>6. moved \in EnterRequest
    BY ZenonT(60), <1>1, <1>3, <1>4 DEF EnterRequest, Option, LiveStatus
  <1>7. /\ moved.request_id = request.request_id /\ moved.target = request.target
        /\ moved.request_epoch = request.request_epoch /\ moved.lease = request.lease
        /\ moved.status = "Switching" /\ moved.grant = request.grant
        /\ moved.switch_epoch = epoch
    BY <1>3 DEF EnterRequest
  <1> HIDE DEF moved
  <1>8. switching \in ProtocolState
    BY ZenonT(60), <1>1, <1>6 DEF ProtocolState, Option
  <1>9. Rest(switching) BY DEF ProtocolState
  <1> HIDE DEF switching, effect
  <1>10. commanded \in ProtocolState
    BY ZenonT(60), <1>2, <1>4, <1>8, CommandUpdate DEF Option, Phases
  <1>11. Rest(commanded) /\ commanded.phase = "Switching" BY <1>8, <1>9 DEF ProtocolState
  <1>12. local \in ProtocolState BY ZenonT(60), <1>8, CommandUpdate DEF Option, Phases
  <1>13. Rest(local) BY SMTT(40), <1>8, <1>9 DEF ProtocolState
  <1> HIDE DEF commanded, local
  <1>14. CASE HasDisplayRoute(target)
    <2> DEFINE t == Emit(commanded, effect)
    <2>1. BeginSwitch(s) = t
      BY <1>14 DEF BeginSwitch, commanded, switching, moved, effect, epoch, target,
                   request, limit
    <2>2. SameWork(commanded, t) /\ SameDisplay(commanded, t) /\ Carries(commanded, t)
          /\ t.ws_state = commanded.ws_state /\ t.phase = commanded.phase
      BY SMTT(40), <1>5, <1>10, EmitFields
    <2> HIDE DEF t
    <2>3. Carries(s, t) BY SMTT(40), <1>11, <2>2 DEF Carries, Tidy, NoViewCommand
    <2>4. SameRequest(s, t)
      BY SMTT(40), <1>3, <1>6, <1>7, <1>11, <2>2, NoneAssumption DEF SameRequest, SameWork, request
    <2> QED BY <1>7, <1>11, <2>1, <2>2, <2>3, <2>4
            DEF Commands, SameWork, SameDisplay, epoch, request
  <1>15. CASE ~HasDisplayRoute(target)
    <2> DEFINE t == IssueGrant(local)
    <2>1. BeginSwitch(s) = t
      BY <1>15 DEF BeginSwitch, local, switching, moved, epoch, target, request, limit
    <2>2. local.active_request \in EnterRequest /\ local.active_request.switch_epoch \in Nat
      BY SMTT(40), <1>1, <1>6, <1>7, <1>13
    <2>3. /\ SameRequest(local, t) /\ Granted(local, t) /\ Carries(local, t)
          /\ t.ws_state = local.ws_state
          /\ t.active_request.switch_epoch = local.active_request.switch_epoch
          /\ t.active_session = local.active_session
          /\ t.keyboard_owner = local.keyboard_owner /\ t.pointer_owner = local.pointer_owner
          /\ t.request_epoch = local.request_epoch
          /\ t.request_history = local.request_history
          /\ t.switch_epoch = local.switch_epoch
          /\ t.fallback_required = local.fallback_required
          /\ t.pending_multiview = local.pending_multiview
      BY SMTT(40), <1>12, <2>2, IssueGrantFields
    <2> HIDE DEF t
    <2>4. Carries(s, t) BY SMTT(40), <1>13, <2>3 DEF Carries, Tidy, NoViewCommand
    <2>5. SameRequest(s, t)
      BY SMTT(40), <1>3, <1>7, <1>13, <2>3, NoneAssumption DEF SameRequest, request
    <2>6. Granted(s, t) BY <1>13, <2>3 DEF Granted
    <2> QED BY SMTT(40), <1>7, <1>13, <2>1, <2>3, <2>4, <2>5, <2>6 DEF Commands, epoch
  <1> QED BY SMTT(40), <1>14, <1>15

(* Time that passes changes only the times of a request and its grant. *)
LEMMA ElapseRequestLater ==
    ASSUME NEW r \in EnterRequest
    PROVE  Later(r, ElapseRequest(r))
  <1> DEFINE deadline == Lower(r.deadline)
             lease == LowerExpiry(r.lease)
             grant == LowerExpiry(r.grant)
             v == [r EXCEPT !.deadline = deadline, !.lease = lease, !.grant = grant]
  <1>1. r # None BY NoneAssumption
  <1>2. ElapseRequest(r) = v BY <1>1 DEF ElapseRequest
  <1>3. v \in EnterRequest BY <1>1, <1>2, ElapseRequestType DEF Option
  <1>4. r.lease \in LeaseIdentity /\ r.lease # None BY NoneAssumption DEF EnterRequest
  <1>5. lease.expires = Lower(r.lease.expires) BY <1>4 DEF LowerExpiry, LeaseIdentity
  <1>6. r.grant = None => grant = None BY DEF LowerExpiry
  <1>7. r.grant # None =>
            /\ grant # None /\ grant.switch_epoch = r.grant.switch_epoch
            /\ grant.grant_epoch = r.grant.grant_epoch
            /\ grant.expires = Lower(r.grant.expires)
    <2> SUFFICES ASSUME r.grant # None
                 PROVE  /\ grant # None /\ grant.switch_epoch = r.grant.switch_epoch
                        /\ grant.grant_epoch = r.grant.grant_epoch
                        /\ grant.expires = Lower(r.grant.expires)
      OBVIOUS
    <2>1. r.grant \in GrantIdentity BY DEF EnterRequest, Option
    <2>2. grant = [r.grant EXCEPT !.expires = Lower(@)] BY DEF LowerExpiry
    <2>3. grant \in GrantIdentity
      BY <2>1, <2>2, LowerType DEF GrantIdentity
    <2>4. grant # None BY <2>3, NoneAssumption
    <2> HIDE DEF grant
    <2> QED BY <2>1, <2>2, <2>4 DEF GrantIdentity
  <1> HIDE DEF deadline, lease, grant
  <1>8. /\ v.request_id = r.request_id /\ v.target = r.target
        /\ v.request_epoch = r.request_epoch /\ v.status = r.status
        /\ v.switch_epoch = r.switch_epoch /\ v.lease = lease /\ v.grant = grant
    BY DEF EnterRequest
  <1> HIDE DEF v
  <1> QED BY <1>2, <1>3, <1>5, <1>6, <1>7, <1>8 DEF Later

(* Time that passes changes only the times of a session. *)
LEMMA ElapsedSession ==
    ASSUME NEW s \in ProtocolState, s.active_session # None
    PROVE  LaterSession(s.active_session, ElapseSession(s.active_session))
  <1> DEFINE v == s.active_session
             lease == LowerExpiry(v.lease)
             until == Lower(v.renewed_until)
             w == [v EXCEPT !.renewed_until = until, !.lease = lease]
  <1>1. v \in ActiveSession BY DEF ProtocolState, Option
  <1>2. ElapseSession(v) = w BY DEF ElapseSession
  <1>3. ElapseSession(v) # None BY <1>1, ElapseSessionType, NoneAssumption DEF Option
  <1>4. v.lease \in LeaseIdentity /\ v.lease # None BY <1>1, NoneAssumption DEF ActiveSession
  <1>5. lease.expires = Lower(v.lease.expires) BY <1>4 DEF LowerExpiry, LeaseIdentity
  <1> HIDE DEF v, lease, until
  <1>6. /\ w.request_id = v.request_id /\ w.target = v.target
        /\ w.request_epoch = v.request_epoch /\ w.renewed_until = until /\ w.lease = lease
    BY <1>1 DEF ActiveSession
  <1> HIDE DEF w
  <1> QED BY SMTT(40), <1>2, <1>3, <1>5, <1>6 DEF v, until, LaterSession

(* Elapse, one unit of time, lowers the deadlines and changes nothing else. *)
LEMMA ElapseAges ==
    ASSUME NEW s \in ProtocolState
    PROVE  Ages(s, Elapse(s))
  <1> DEFINE deadline == Lower(s.phase_deadline)
             poll == Lower(s.next_signal_poll)
             request == ElapseRequest(s.active_request)
             session == ElapseSession(s.active_session)
             t == [s EXCEPT !.phase_deadline = deadline, !.next_signal_poll = poll,
                            !.active_request = request, !.active_session = session]
  <1>1. Elapse(s) = t BY ZenonT(60) DEF Elapse
  <1>2. deadline = None <=> s.phase_deadline = None
    <2>1. s.phase_deadline = None \/ s.phase_deadline \in Nat BY DEF ProtocolState, Option
    <2> QED BY SMTT(40), <2>1, NoneAssumption DEF Lower
  <1>3. s.active_request = None => request = None BY DEF ElapseRequest
  <1>4. s.active_request # None => Later(s.active_request, request)
    BY ElapseRequestLater DEF ProtocolState, Option
  <1>5. s.active_session = None => session = None BY DEF ElapseSession
  <1>6. s.active_session # None => LaterSession(s.active_session, session)
    BY SMTT(40), ElapsedSession
  <1> HIDE DEF deadline, poll, request, session
  <1>7. /\ t.ws_state = s.ws_state /\ t.phase = s.phase /\ t.phase_deadline = deadline
        /\ SameDisplay(s, t) /\ t.effects = s.effects
        /\ t.keyboard_owner = s.keyboard_owner /\ t.pointer_owner = s.pointer_owner
        /\ t.request_epoch = s.request_epoch /\ t.grant_epoch = s.grant_epoch
        /\ t.request_history = s.request_history
        /\ t.active_request = request /\ t.active_session = session
    BY DEF SameDisplay, ProtocolState
  <1> HIDE DEF t
  <1> QED BY SMTT(40), <1>1, <1>2, <1>3, <1>4, <1>5, <1>6, <1>7 DEF Ages

--------------------------------------------------------------------------------

(* A change of the connection state changes nothing else. *)
LEMMA WsStateFields ==
    ASSUME NEW s \in ProtocolState, NEW ws \in WsStates
    PROVE  LET u == [s EXCEPT !.ws_state = ws]
           IN  /\ u \in ProtocolState
               /\ SameWork(s, u) /\ SameDisplay(s, u) /\ Carries(s, u)
               /\ u.ws_state = ws /\ u.phase = s.phase /\ u.phase_deadline = s.phase_deadline
  <1> DEFINE u == [s EXCEPT !.ws_state = ws]
  <1>1. u \in ProtocolState BY WsStateUpdate
  <1>2. /\ SameWork(s, u) /\ SameDisplay(s, u)
        /\ u.ws_state = ws /\ u.phase = s.phase /\ u.phase_deadline = s.phase_deadline
        /\ u.effects = s.effects
    BY DEF SameWork, SameDisplay, ProtocolState
  <1> HIDE DEF u
  <1>3. Carries(s, u) BY <1>2 DEF Carries, Tidy, NoViewCommand, SameWork
  <1> QED BY <1>1, <1>2, <1>3 DEF u

(* TransportConnecting, Registering and Subscribed bring the transport closer to a *)
(* connection.                                                                   *)
LEMMA LifecycleMove ==
    ASSUME NEW s \in ProtocolState, ~DaemonHealthy(s), NEW t,
           t \in {ApplyTransportConnecting(s).next, ApplyTransportRegistering(s).next,
                  ApplyTransportSubscribed(s).next}
    PROVE  Keeps(s, t) \/ Connects(s, t)
  <1>1. PICK ws \in {"Connecting", "Registering", "Synchronizing"} :
            t \in {s, [s EXCEPT !.ws_state = ws]}
    BY ValidatedNext DEF ApplyTransportConnecting, ApplyTransportRegistering,
                         ApplyTransportSubscribed
  <1> DEFINE u == [s EXCEPT !.ws_state = ws]
  <1>2. ws \in WsStates BY DEF WsStates
  <1>3. /\ SameWork(s, u) /\ SameDisplay(s, u) /\ Carries(s, u)
        /\ u.ws_state = ws /\ u.phase = s.phase /\ u.phase_deadline = s.phase_deadline
    BY <1>2, WsStateFields
  <1>4. t \in {s, u} BY <1>1
  <1> HIDE DEF u
  <1>5. Connects(s, u) BY <1>1, <1>3 DEF Connects, DaemonHealthy
  <1> QED BY <1>4, <1>5, KeepsItself

(* TransportDisconnected ends in a fallback. *)
LEMMA DisconnectedMove ==
    ASSUME NEW s \in ProtocolState
    PROVE  LET t == ApplyTransportDisconnected(s).next IN Keeps(s, t) \/ Falls(s, t)
  <1> DEFINE u == [s EXCEPT !.ws_state = "Disconnected"]
  <1>1. "Disconnected" \in WsStates BY DEF WsStates
  <1>2. u \in ProtocolState /\ SameWork(s, u) /\ SameDisplay(s, u) /\ Carries(s, u)
    BY <1>1, WsStateFields
  <1>3. ApplyTransportDisconnected(s).next \in {s, BeginFallback(u)}
    BY ValidatedNext DEF ApplyTransportDisconnected
  <1> HIDE DEF u
  <1>4. Falls(s, BeginFallback(u)) BY <1>2, SeesLeads, BeginFallbackMove
  <1> QED BY <1>3, <1>4, KeepsItself

(* TransportSynchronized finds the server's display, leaves the TV to whoever sits *)
(* there, or falls back.                                                         *)
LEMMA SynchronizedMove ==
    ASSUME NEW s \in ProtocolState, ~DaemonHealthy(s), NEW mode \in TvModes,
           NEW input \in Option(Hosts), NEW signals \in [DisplayHosts -> BOOLEAN]
    PROVE  LET t == ApplyTransportSynchronized(s, mode, input, signals).next
           IN  Keeps(s, t) \/ Finishes(s, t) \/ Accepts(s, t) \/ Falls(s, t)
  <1> DEFINE online == [s EXCEPT !.ws_state = "Connected"]
             seen == StoreObservation(online, s.switch_epoch, mode, input, signals)
             t == ApplyTransportSynchronized(s, mode, input, signals).next
  <1>1. "Connected" \in WsStates BY DEF WsStates
  <1>2. /\ online \in ProtocolState
        /\ SameWork(s, online) /\ SameDisplay(s, online) /\ Carries(s, online)
        /\ online.ws_state = "Connected"
    BY SMTT(40), <1>1, WsStateFields
  <1>3. s.switch_epoch \in Nat BY DEF ProtocolState
  <1>4. \/ t = s
        \/ t = FinishFallback(seen)
        \/ ManualDisplayObserved(seen) /\ t = AcceptManualDisplay(seen)
        \/ t = BeginFallback(seen)
    BY ValidatedNext DEF ApplyTransportSynchronized
  <1> HIDE DEF online, t
  <1>5. seen \in ProtocolState BY SMTT(40), <1>2, <1>3, StoreObservationType
  <1>6. Sees(online, seen) BY SMTT(40), <1>2, StoreObservationFields
  <1> HIDE DEF seen
  <1>7. /\ SameWork(s, seen) /\ SameDisplay(s, seen) /\ Carries(s, seen)
        /\ DaemonHealthy(seen)
    BY <1>2, <1>6 DEF Sees, SameWork, SameDisplay, Carries, DaemonHealthy
  <1>8. Finishes(s, FinishFallback(seen)) BY <1>5, <1>7, FinishFallbackMove
  <1>9. ManualDisplayObserved(seen) => Accepts(s, AcceptManualDisplay(seen))
    BY SMTT(40), <1>5, <1>7, AcceptManualDisplayMove
  <1>10. Falls(s, BeginFallback(seen)) BY SMTT(40), <1>5, <1>7, SeesLeads, BeginFallbackMove
  <1> QED BY <1>4, <1>8, <1>9, <1>10, KeepsItself DEF t

(* CommandAcknowledged has the display looked at. *)
LEMMA AcknowledgedMove ==
    ASSUME NEW s \in ProtocolState, NEW epoch \in Nat, NEW target
    PROVE  LET t == ApplyCommandAcknowledged(s, epoch, target).next
           IN  Keeps(s, t) \/ Acknowledges(s, t)
  <1> DEFINE phase == IF s.fallback_required THEN "FallbackVerifying" ELSE "Verifying"
             told == [s EXCEPT !.phase = phase]
             r == RequestObservation(told, epoch)
             t == ApplyCommandAcknowledged(s, epoch, target).next
  <1>1. t = s \/ (s.phase \in {"Switching", "FallbackCommandPending"} /\ t = r)
    BY ValidatedNext DEF ApplyCommandAcknowledged, Ok
  <1>2. phase \in Phases BY DEF Phases
  <1> HIDE DEF phase, t
  <1>3. told \in ProtocolState BY ZenonT(60), <1>2, CommandUpdate DEF Option
  <1>4. /\ SameWork(s, told) /\ SameDisplay(s, told) /\ told.ws_state = s.ws_state
        /\ told.phase = phase /\ told.effects = s.effects
    BY DEF SameWork, SameDisplay, ProtocolState
  <1> HIDE DEF told
  <1>5. /\ SameWork(told, r) /\ SameDisplay(told, r) /\ Carries(told, r)
        /\ r.ws_state = told.ws_state /\ r.phase = told.phase
        /\ r.phase_deadline = OBSERVATION_MS
    BY SMTT(40), <1>3, RequestObservationFields
  <1> HIDE DEF r
  <1>6. OBSERVATION_MS # None BY SMTT(40), ConfigAssumption, NoneAssumption
  <1>7. Carries(s, r) BY SMTT(40), <1>4, <1>5 DEF Carries, Tidy, NoViewCommand, SameWork
  <1>8. s.phase \in {"Switching", "FallbackCommandPending"} => Acknowledges(s, r)
    BY SMTT(40), <1>4, <1>5, <1>6, <1>7 DEF Acknowledges, SameWork, SameDisplay, phase
  <1> QED BY <1>1, <1>8, KeepsItself DEF t

(* CommandFailed ends in a fallback when it is about the newest command. *)
LEMMA FailedMove ==
    ASSUME NEW s \in ProtocolState, NEW epoch
    PROVE  LET t == ApplyCommandFailed(s, epoch).next IN Keeps(s, t) \/ Falls(s, t)
  <1>1. ApplyCommandFailed(s, epoch).next \in {s, BeginFallback(s)}
    BY ValidatedNext DEF ApplyCommandFailed
  <1> QED BY <1>1, KeepsItself, BeginFallbackMove

(* A sighting of the multiview that was asked for, or of anything else. *)
LEMMA CompleteMultiviewMove ==
    ASSUME NEW s \in ProtocolState, NEW u \in ProtocolState, Sees(s, u),
           s.active_request = None, s.phase = "MultiviewChanging"
    PROVE  LET t == CompleteMultiviewObservation(u)
           IN  t = u \/ CompletesView(s, t) \/ Falls(s, t)
  <1> DEFINE done == [u EXCEPT !.pending_multiview = None, !.phase = "Idle",
                               !.phase_deadline = None]
  <1>1. CompleteMultiviewObservation(u) \in {u, done, BeginFallback(u)}
    BY DEF CompleteMultiviewObservation
  <1>2. /\ SameWork(u, done) /\ done.ws_state = u.ws_state
        /\ done.switch_epoch = u.switch_epoch /\ done.verified_epoch = u.verified_epoch
        /\ done.fallback_required = u.fallback_required /\ done.pending_multiview = None
        /\ done.phase = "Idle" /\ done.effects = u.effects
    BY SMTT(40) DEF SameWork, ProtocolState
  <1> HIDE DEF done
  <1>3. Carries(s, done) BY SMTT(40), <1>2 DEF Carries, Tidy, NoViewCommand, SameWork, Sees
  <1>4. CompletesView(s, done)
    BY SMTT(40), <1>2, <1>3 DEF CompletesView, Sees, SameWork, SameDisplay
  <1>5. Falls(s, BeginFallback(u)) BY SeesLeads, BeginFallbackMove DEF Sees
  <1> QED BY <1>1, <1>4, <1>5

(* Observation, while the transport is connected. *)
LEMMA ObservationMove ==
    ASSUME NEW s \in ProtocolState, DaemonHealthy(s), NEW epoch \in Nat,
           NEW mode \in TvModes, NEW input \in Option(Hosts),
           NEW signals \in [DisplayHosts -> BOOLEAN]
    PROVE  LET t == ApplyObservation(s, epoch, mode, input, signals).next
           IN  \/ Keeps(s, t) \/ Finishes(s, t) \/ Waits(s, t) \/ Grants(s, t)
               \/ CompletesView(s, t) \/ Falls(s, t)
  <1> DEFINE stored == StoreObservation(s, epoch, mode, input, signals)
             seen == [stored EXCEPT
                         !.observation_in_flight = IF @ = epoch THEN None ELSE @]
             waiting == [seen EXCEPT !.phase = "FallbackVerifying"]
             polling == [seen EXCEPT !.phase_deadline = None,
                                     !.next_signal_poll = SIGNAL_POLL_MS]
             request == seen.active_request
             new == IF seen.fallback_required /\ seen.switch_epoch = epoch
                    THEN IF ServerDisplayVerified(seen, epoch)
                         THEN FinishFallback(seen)
                         ELSE [seen EXCEPT !.phase = "FallbackVerifying"]
                    ELSE IF seen.active_request # None
                    THEN ObserveForRequest(seen, epoch)
                    ELSE IF seen.phase = "RemoteOwned"
                    THEN ObserveForSession(seen, epoch)
                    ELSE IF seen.phase = "MultiviewChanging"
                    THEN CompleteMultiviewObservation(seen)
                    ELSE seen
             t == ApplyObservation(s, epoch, mode, input, signals).next
             forRequest == /\ request # None /\ request.switch_epoch = epoch
                           /\ seen.phase = "Verifying"
  <1>0. t \in {s, new}
    <2>1. ApplyObservation(s, epoch, mode, input, signals) = Validated(s, new)
      BY ZenonT(60) DEF ApplyObservation
    <2> QED BY <2>1, ValidatedNext, ZenonT(60)
  <1>2. stored \in ProtocolState BY SMTT(40), StoreObservationType
  <1>3. Sees(s, stored) BY StoreObservationFields
  <1> HIDE DEF stored, t
  <1>4. seen \in ProtocolState BY <1>2, ObservationUpdate
  <1>5. /\ SameWork(stored, seen) /\ SameDisplay(stored, seen)
        /\ seen.ws_state = stored.ws_state /\ seen.phase = stored.phase
        /\ seen.phase_deadline = stored.phase_deadline /\ seen.effects = stored.effects
    BY <1>2 DEF SameWork, SameDisplay, ProtocolState
  <1> HIDE DEF seen
  <1>1. \/ new = seen
        \/ seen.fallback_required /\ new \in {FinishFallback(seen), waiting}
        \/ forRequest /\ new = IssueGrant(seen)
        \/ new = BeginFallback(seen) \/ new = BeginActiveSessionFailureFallback(seen)
        \/ seen.phase = "RemoteOwned" /\ new = polling
        \/ /\ request = None /\ seen.phase = "MultiviewChanging"
           /\ new = CompleteMultiviewObservation(seen)
    <2>1. ObserveForRequest(seen, epoch) \in {seen, BeginFallback(seen)}
          \/ (request.switch_epoch = epoch /\ seen.phase = "Verifying"
              /\ ObserveForRequest(seen, epoch) = IssueGrant(seen))
      BY ZenonT(60) DEF ObserveForRequest
    <2>2. ObserveForSession(seen, epoch)
            \in {seen, BeginActiveSessionFailureFallback(seen), polling}
      BY ZenonT(60) DEF ObserveForSession
    <2> QED BY <2>1, <2>2, ZenonT(60)
  <1> HIDE DEF new
  <1>6. Carries(s, seen) BY SMTT(40), <1>3, <1>5 DEF Carries, Tidy, NoViewCommand, Sees, SameWork
  <1>7. Sees(s, seen) BY SMTT(40), <1>3, <1>5, <1>6 DEF Sees, SameWork, SameDisplay
  <1>8. Keeps(s, seen) BY <1>7 DEF Keeps, Sees
  <1>9. seen.fallback_required => Finishes(s, FinishFallback(seen))
    BY ZenonT(60), <1>4, <1>7, FinishFallbackMove DEF Sees, SameDisplay, DaemonHealthy
  <1>10. /\ SameWork(seen, waiting) /\ SameDisplay(seen, waiting)
         /\ waiting.ws_state = seen.ws_state /\ waiting.phase = "FallbackVerifying"
         /\ waiting.phase_deadline = seen.phase_deadline /\ waiting.effects = seen.effects
    BY <1>4 DEF SameWork, SameDisplay, ProtocolState
  <1>11. /\ SameWork(seen, polling) /\ SameDisplay(seen, polling)
         /\ polling.ws_state = seen.ws_state /\ polling.phase = seen.phase
         /\ polling.effects = seen.effects
    BY SMTT(40), <1>4 DEF SameWork, SameDisplay, ProtocolState
  <1> HIDE DEF waiting, polling
  <1>12. seen.fallback_required => Waits(s, waiting)
    <2>1. Carries(s, waiting) BY SMTT(40), <1>6, <1>10 DEF Carries, Tidy, NoViewCommand, SameWork
    <2> QED BY SMTT(40), <1>7, <1>10, <2>1 DEF Waits, Sees, SameWork, SameDisplay
  <1>13. seen.phase = "RemoteOwned" => Keeps(s, polling)
    <2>1. Carries(s, polling) BY <1>6, <1>11 DEF Carries, Tidy, NoViewCommand, SameWork
    <2> QED BY SMTT(40), <1>7, <1>11, <2>1 DEF Keeps, Sees, SameWork, SameDisplay
  <1>14. forRequest
            => Grants(s, IssueGrant(seen))
    BY ZenonT(60), <1>4, <1>7, IssueGrantMove DEF Sees, SameWork
  <1>15. Leads(s, seen) BY SMTT(40), <1>4, <1>7, SeesLeads DEF Sees
  <1>16. Falls(s, BeginFallback(seen)) /\ Falls(s, BeginActiveSessionFailureFallback(seen))
    BY <1>4, <1>15, BeginFallbackMove, SessionFailureMove
  <1>17. request = None /\ seen.phase = "MultiviewChanging"
            /\ new = CompleteMultiviewObservation(seen)
         => new = seen \/ CompletesView(s, new) \/ Falls(s, new)
    BY ZenonT(60), <1>4, <1>7, CompleteMultiviewMove DEF Sees, SameWork
  <1> HIDE DEF forRequest, request
  <1> QED BY ZenonT(60), <1>0, <1>1, <1>8, <1>9, <1>12, <1>13, <1>14, <1>16, <1>17, KeepsItself
          DEF t

(* MultiViewAcknowledged has the multiview looked at, when it answers the newest *)
(* command.                                                                     *)
LEMMA MultiViewAcknowledgedMove ==
    ASSUME NEW s \in ProtocolState, NEW epoch \in Nat, NEW enabled \in BOOLEAN
    PROVE  LET t == ApplyMultiViewAcknowledged(s, epoch, enabled).next
           IN  Keeps(s, t) \/ (s.switch_epoch = epoch /\ ChangesView(s, t))
  <1> DEFINE asked == RequestObservation(s, epoch)
             changed == [asked EXCEPT !.phase = "MultiviewChanging"]
             t == ApplyMultiViewAcknowledged(s, epoch, enabled).next
  <1>1. t = s \/ (s.switch_epoch = epoch /\ s.pending_multiview = enabled /\ t = changed)
    BY ValidatedNext DEF ApplyMultiViewAcknowledged
  <1>2. asked \in ProtocolState BY RequestObservationType
  <1>3. /\ SameWork(s, asked) /\ SameDisplay(s, asked) /\ Carries(s, asked)
        /\ asked.ws_state = s.ws_state /\ asked.phase_deadline = OBSERVATION_MS
    BY RequestObservationFields
  <1> HIDE DEF asked, t
  <1>4. /\ SameWork(asked, changed) /\ SameDisplay(asked, changed)
        /\ changed.ws_state = asked.ws_state /\ changed.phase = "MultiviewChanging"
        /\ changed.phase_deadline = asked.phase_deadline /\ changed.effects = asked.effects
    BY <1>2 DEF SameWork, SameDisplay, ProtocolState
  <1> HIDE DEF changed
  <1>5. OBSERVATION_MS # None BY ConfigAssumption, NoneAssumption
  <1>6. enabled # None BY SMTT(40), NoneAssumption
  <1>7. Carries(s, changed) BY SMTT(40), <1>3, <1>4 DEF Carries, Tidy, NoViewCommand, SameWork
  <1>8. s.pending_multiview = enabled => ChangesView(s, changed)
    BY SMTT(40), <1>3, <1>4, <1>5, <1>6, <1>7 DEF ChangesView, SameWork, SameDisplay
  <1> QED BY <1>1, <1>8, KeepsItself DEF t

(* SubscriptionObserved. *)
LEMMA SubscriptionMove ==
    ASSUME NEW s \in ProtocolState, NEW mode \in TvModes, NEW input \in Option(Hosts)
    PROVE  LET t == ApplySubscriptionObserved(s, mode, input).next
           IN  Keeps(s, t) \/ Accepts(s, t) \/ Falls(s, t)
  <1> DEFINE seen == [s EXCEPT !.tv_mode = mode, !.observed_input = input]
             epoch == s.switch_epoch
             asked == RequestObservation(seen, epoch)
             again == [asked EXCEPT !.phase_deadline = seen.phase_deadline]
             cleared == [seen EXCEPT !.manual_recovery_target = None]
             t == ApplySubscriptionObserved(s, mode, input).next
  <1>1. \/ t = s \/ t = seen \/ t = again \/ t = cleared \/ t = BeginFallback(seen)
        \/ ManualDisplayObserved(seen) /\ t = AcceptManualDisplay(seen)
    BY ValidatedNext
       DEF ApplySubscriptionObserved, RequestObservationPreservingDeadline
  <1>2. seen \in ProtocolState BY ZenonT(60) DEF ProtocolState
  <1>3. epoch \in Nat BY DEF ProtocolState
  <1>4. /\ SameWork(s, seen) /\ SameDisplay(s, seen)
        /\ seen.ws_state = s.ws_state /\ seen.phase = s.phase
        /\ seen.phase_deadline = s.phase_deadline /\ seen.effects = s.effects
    BY DEF SameWork, SameDisplay, ProtocolState
  <1> HIDE DEF seen, epoch, t
  <1>5. /\ cleared.ws_state = seen.ws_state /\ cleared.phase = seen.phase
        /\ cleared.phase_deadline = seen.phase_deadline /\ cleared.effects = seen.effects
        /\ SameWork(seen, cleared) /\ SameDisplay(seen, cleared)
    BY <1>2 DEF SameWork, SameDisplay, ProtocolState
  <1>6. asked \in ProtocolState BY SMTT(40), <1>2, <1>3, RequestObservationType
  <1>7. /\ SameWork(seen, asked) /\ SameDisplay(seen, asked) /\ Carries(seen, asked)
        /\ asked.ws_state = seen.ws_state /\ asked.phase = seen.phase
    BY SMTT(40), <1>2, <1>3, RequestObservationFields
  <1> HIDE DEF asked, cleared
  <1>8. /\ SameWork(asked, again) /\ SameDisplay(asked, again)
        /\ again.ws_state = asked.ws_state /\ again.phase = asked.phase
        /\ again.phase_deadline = seen.phase_deadline /\ again.effects = asked.effects
    BY SMTT(40), <1>6 DEF SameWork, SameDisplay, ProtocolState
  <1> HIDE DEF again
  <1>9. Carries(s, seen) BY SMTT(40), <1>4 DEF Carries, Tidy, NoViewCommand, SameWork
  <1>10. Carries(s, cleared) BY SMTT(40), <1>5, <1>9 DEF Carries, Tidy, NoViewCommand, SameWork
  <1>11. Carries(s, again) BY SMTT(40), <1>7, <1>8, <1>9 DEF Carries, Tidy, NoViewCommand, SameWork
  <1>12. Keeps(s, seen) BY SMTT(40), <1>4, <1>9 DEF Keeps
  <1>13. Keeps(s, cleared) BY SMTT(40), <1>4, <1>5, <1>10 DEF Keeps, SameWork, SameDisplay
  <1>14. Keeps(s, again) BY SMTT(40), <1>4, <1>7, <1>8, <1>11 DEF Keeps, SameWork, SameDisplay
  <1>15. ManualDisplayObserved(seen) => Accepts(s, AcceptManualDisplay(seen))
    BY SMTT(40), <1>2, <1>4, <1>9, AcceptManualDisplayMove
  <1>16. Falls(s, BeginFallback(seen)) BY <1>2, <1>4, <1>9, SeesLeads, BeginFallbackMove
  <1> QED BY SMTT(40), <1>1, <1>12, <1>13, <1>14, <1>15, <1>16, KeepsItself DEF t
================================================================================
