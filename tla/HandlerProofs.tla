----------------------------- MODULE HandlerProofs -----------------------------
(***************************************************************************)
(* The moves that the handlers of the clients' calls, of the peers' reports and  *)
(* of the timer make, from every typed state; and the turns of the actor that    *)
(* call a handler.                                                               *)
(***************************************************************************)
EXTENDS MoveProofs

(* begin_switch after a step that leaves the request and the display alone. *)
LEMMA CommandsAfter ==
    ASSUME NEW s \in ProtocolState, NEW u \in ProtocolState, NEW t, Sees(s, u), Commands(u, t)
    PROVE  Commands(s, t)
  <1>1. SameRequest(s, t) BY DEF Commands, SameRequest, Sees, SameWork
  <1>2. Carries(s, t) BY DEF Commands, Carries, Sees
  <1>3. Granted(u, t) => Granted(s, t) BY DEF Granted, Sees, SameWork
  <1> QED BY <1>1, <1>2, <1>3 DEF Commands, Sees, SameWork, SameDisplay, SameRequest

(* A fallback after begin_switch still has to restore the display. *)
LEMMA CommandsLeads ==
    ASSUME NEW s \in ProtocolState, NEW t \in ProtocolState, Commands(s, t)
    PROVE  Leads(s, t)
  <1>1. s.switch_epoch \in Nat BY DEF ProtocolState
  <1>2. t.switch_epoch = s.switch_epoch + 1 /\ t.active_request.switch_epoch = t.switch_epoch
    BY DEF Commands
  <1>3. t.switch_epoch \in Nat /\ t.switch_epoch >= s.switch_epoch BY <1>1, <1>2
  <1>4. t.active_request.switch_epoch # None BY <1>2, <1>3, NoneAssumption
  <1>5. t.active_request # None BY NoneAssumption DEF Commands, SameRequest
  <1>6. MayShow(s) => MayShow(t) BY <1>4, <1>5 DEF MayShow, Commands, SameRequest
  <1>7. s.active_request # None BY DEF Commands, SameRequest
  <1> QED BY <1>3, <1>6, <1>7 DEF Leads, Commands

(* PeerReadinessUpdated. *)
LEMMA PeerReadinessMove ==
    ASSUME NEW s \in ProtocolState, NEW host \in Hosts \ {Server},
           NEW readiness \in PeerReadiness
    PROVE  LET t == ApplyPeerReadinessUpdated(s, host, readiness).next
           IN  Keeps(s, t) \/ Falls(s, t) \/ Switches(s, t)
  <1> DEFINE told == [s EXCEPT !.peers[host] = readiness]
             request == s.active_request
             requestReady == BundleReady(readiness, request.lease.peer_session_epoch)
             forRequest ==
                IF request = None \/ request.target # host THEN told
                ELSE IF s.phase = "Waking" /\ requestReady THEN BeginSwitch(told)
                ELSE IF s.phase \in {"Switching", "Verifying", "GrantPending"} /\ ~requestReady
                THEN BeginFallback(told)
                ELSE told
             failed == BeginActiveSessionFailureFallback(forRequest)
             t == ApplyPeerReadinessUpdated(s, host, readiness).next
  <1>1. t \in {s, forRequest} \/ (t = failed /\ forRequest.keyboard_owner = host)
    <2> DEFINE session == forRequest.active_session
               epoch == IF session = None THEN 0 ELSE session.lease.peer_session_epoch
               new == IF /\ forRequest.keyboard_owner = host /\ host # Server
                         /\ ~BundleReady(readiness, epoch)
                      THEN failed ELSE forRequest
    <2>1. ApplyPeerReadinessUpdated(s, host, readiness) = Validated(s, new)
      BY ZenonT(60) DEF ApplyPeerReadinessUpdated
    <2>2. t \in {s, new} BY <2>1, ValidatedNext, ZenonT(60)
    <2> HIDE DEF epoch, session, forRequest, t
    <2> QED BY <2>2, ZenonT(60)
  <1>2. told \in ProtocolState BY PeersUpdate
  <1>3. /\ SameWork(s, told) /\ SameDisplay(s, told)
        /\ told.ws_state = s.ws_state /\ told.phase = s.phase
        /\ told.phase_deadline = s.phase_deadline /\ told.effects = s.effects
    BY DEF SameWork, SameDisplay, ProtocolState
  <1> HIDE DEF told, requestReady, t
  <1>4. Carries(s, told) BY <1>3 DEF Carries, Tidy, NoViewCommand, SameWork
  <1>5. Sees(s, told) BY <1>3, <1>4 DEF Sees
  <1>6. Keeps(s, told) /\ Leads(s, told) BY <1>2, <1>3, <1>4, SeesLeads DEF Keeps
  <1>7. request # None => Commands(s, BeginSwitch(told)) /\ BeginSwitch(told) \in ProtocolState
    <2>1. request # None => told.active_request \in EnterRequest
      BY <1>3 DEF ProtocolState, Option, SameWork
    <2> QED BY SMTT(40), <1>2, <1>5, <2>1, BeginSwitchFields, BeginSwitchType, CommandsAfter
  <1>8. Falls(s, BeginFallback(told)) BY <1>2, <1>6, BeginFallbackMove
  <1>9. \/ forRequest = told
        \/ request # None /\ s.phase = "Waking" /\ forRequest = BeginSwitch(told)
        \/ forRequest = BeginFallback(told)
    OBVIOUS
  <1> HIDE DEF forRequest, request
  <1>10. forRequest = BeginFallback(told) => forRequest.keyboard_owner = Server
    BY <1>8 DEF Falls, Fallen
  <1>11. forRequest # BeginFallback(told) =>
            forRequest \in ProtocolState /\ Leads(s, forRequest)
    BY <1>2, <1>6, <1>7, <1>9, CommandsLeads
  <1>12. forRequest.keyboard_owner = host => Falls(s, failed)
    BY <1>10, <1>11, SessionFailureMove
  <1>13. Keeps(s, forRequest) \/ Falls(s, forRequest) \/ Switches(s, forRequest)
    BY <1>6, <1>7, <1>8, <1>9 DEF Switches
  <1> QED BY <1>1, <1>12, <1>13, KeepsItself DEF t

(* ArmManualRecovery. *)
LEMMA ArmManualRecoveryMove ==
    ASSUME NEW s \in ProtocolState, NEW target \in Hosts
    PROVE  Keeps(s, ApplyArmManualRecovery(s, target).next)
  <1> DEFINE armed == [s EXCEPT !.manual_recovery_target = target]
             t == ApplyArmManualRecovery(s, target).next
  <1>1. t \in {s, armed} BY ValidatedNext DEF ApplyArmManualRecovery, Err
  <1>2. /\ SameWork(s, armed) /\ SameDisplay(s, armed)
        /\ armed.ws_state = s.ws_state /\ armed.phase = s.phase
        /\ armed.phase_deadline = s.phase_deadline /\ armed.effects = s.effects
    BY DEF SameWork, SameDisplay, ProtocolState
  <1> HIDE DEF armed, t
  <1>3. Carries(s, armed) BY <1>2 DEF Carries, Tidy, NoViewCommand, SameWork
  <1>4. Keeps(s, armed) BY <1>2, <1>3 DEF Keeps
  <1> QED BY <1>1, <1>4, KeepsItself DEF t

(* Renew. *)
LEMMA RenewMove ==
    ASSUME NEW s \in ProtocolState, NEW id, NEW lease, NEW peerSession
    PROVE  LET t == ApplyRenew(s, id, lease, peerSession).next
           IN  Keeps(s, t) \/ Renews(s, t) \/ Falls(s, t)
  <1> DEFINE session == [s.active_session EXCEPT !.renewed_until = LEASE_MS,
                                                 !.lease.expires = LEASE_MS]
             renewed == [s EXCEPT !.active_session.renewed_until = LEASE_MS,
                                  !.active_session.lease.expires = LEASE_MS]
             plain == [s EXCEPT !.active_session = session]
             t == ApplyRenew(s, id, lease, peerSession).next
  <1>1. \/ t \in {s, BeginActiveSessionFailureFallback(s)}
        \/ s.active_session # None /\ t = renewed
    BY ValidatedNext DEF ApplyRenew
  <1>2. renewed = plain BY ZenonT(60) DEF ProtocolState
  <1>7. s.active_session # None => session \in ActiveSession
    <2> DEFINE old == s.active_session
               held == [old.lease EXCEPT !.expires = LEASE_MS]
    <2>1. LEASE_MS \in Nat BY ConfigAssumption
    <2>2. old # None => old \in ActiveSession BY DEF ProtocolState, Option
    <2> HIDE DEF old
    <2>3. old # None => held \in LeaseIdentity
      BY <2>1, <2>2 DEF ActiveSession, LeaseIdentity
    <2>4. old # None => [old EXCEPT !.renewed_until = LEASE_MS, !.lease.expires = LEASE_MS]
                            = [old EXCEPT !.renewed_until = LEASE_MS, !.lease = held]
      BY <2>2, ZenonT(60) DEF ActiveSession
    <2> HIDE DEF held
    <2>5. old # None =>
            [old EXCEPT !.renewed_until = LEASE_MS, !.lease = held] \in ActiveSession
      BY <2>1, <2>2, <2>3, ZenonT(60) DEF ActiveSession
    <2> QED BY <2>4, <2>5 DEF old
  <1> HIDE DEF session, renewed, t
  <1>3. /\ plain.active_session = session
        /\ SameDisplay(s, plain)
        /\ plain.ws_state = s.ws_state /\ plain.phase = s.phase
        /\ plain.phase_deadline = s.phase_deadline /\ plain.effects = s.effects
        /\ plain.active_request = s.active_request
        /\ plain.keyboard_owner = s.keyboard_owner /\ plain.pointer_owner = s.pointer_owner
        /\ plain.request_epoch = s.request_epoch /\ plain.grant_epoch = s.grant_epoch
        /\ plain.request_history = s.request_history
    BY DEF SameDisplay, ProtocolState
  <1> HIDE DEF plain
  <1>4. Carries(s, plain) BY <1>3 DEF Carries, Tidy, NoViewCommand
  <1>5. s.active_session # None => Renews(s, plain) BY <1>3, <1>4, <1>7 DEF Renews, session
  <1>6. Falls(s, BeginActiveSessionFailureFallback(s)) BY KeepsItself, SessionFailureMove
  <1> QED BY SMTT(40), <1>1, <1>2, <1>5, <1>6, KeepsItself DEF t

(* MultiViewRequested. *)
LEMMA MultiViewRequestedMove ==
    ASSUME NEW s \in ProtocolState, NEW enabled \in BOOLEAN
    PROVE  LET t == ApplyMultiViewRequested(s, enabled).next
           IN  Keeps(s, t) \/ RequestsView(s, t)
  <1> DEFINE epoch == s.switch_epoch + 1
             effect == [type |-> "SetMultiView", enabled |-> enabled,
                        switch_epoch |-> epoch]
             effects == Append(s.effects, effect)
             asked == [s EXCEPT !.switch_epoch = epoch,
                                !.pending_multiview = enabled,
                                !.phase = "MultiviewChanging",
                                !.phase_deadline = COMMAND_MS]
             sent == [asked EXCEPT !.effects = effects]
             t == ApplyMultiViewRequested(s, enabled).next
  <1>1. \/ t = s
        \/ /\ DaemonHealthy(s) /\ ~s.fallback_required /\ s.keyboard_owner = Server
           /\ s.active_request = None /\ t = Emit(asked, effect)
    BY ValidatedNext DEF ApplyMultiViewRequested, Err, Ready
  <1>2. s.effects \in Seq(Effect) BY DEF ProtocolState
  <1>3. epoch \in Nat BY DEF ProtocolState
  <1>4. effect.type = "SetMultiView" /\ effect.switch_epoch = epoch OBVIOUS
  <1>5. COMMAND_MS # None BY ConfigAssumption, NoneAssumption
  <1> HIDE DEF effect, epoch, t
  <1>6. NoViewCommand(s) =>
            \A i \in DOMAIN effects :
                effects[i].type = "SetMultiView" => effects[i].switch_epoch = epoch
    BY <1>2, <1>4 DEF NoViewCommand
  <1>7. Emit(asked, effect) = sent
    <2>1. asked.effects = s.effects BY DEF ProtocolState
    <2> QED BY <2>1 DEF Emit
  <1> HIDE DEF effects
  <1>8. /\ SameWork(s, sent) /\ sent.ws_state = s.ws_state
        /\ sent.switch_epoch = epoch /\ sent.verified_epoch = s.verified_epoch
        /\ sent.fallback_required = s.fallback_required
        /\ sent.phase = "MultiviewChanging" /\ sent.phase_deadline = COMMAND_MS
        /\ sent.effects = effects
    BY DEF SameWork, ProtocolState
  <1> HIDE DEF sent, asked
  <1>9. Tidy(s) => Tidy(sent) BY <1>8 DEF Tidy, SameWork
  <1>11. NoViewCommand(s) =>
            \A i \in DOMAIN sent.effects :
                sent.effects[i].type = "SetMultiView" =>
                    sent.effects[i].switch_epoch = sent.switch_epoch
    BY <1>6, <1>8
  <1>12. sent.phase_deadline # None /\ sent.switch_epoch = s.switch_epoch + 1
    BY <1>5, <1>8 DEF epoch
  <1>10. DaemonHealthy(s) /\ ~s.fallback_required /\ s.keyboard_owner = Server
            /\ s.active_request = None => RequestsView(s, sent)
    BY <1>8, <1>9, <1>11, <1>12, ZenonT(60) DEF RequestsView
  <1> QED BY <1>1, <1>7, <1>10, KeepsItself DEF t

(* Shutdown. *)
LEMMA ShutdownMove ==
    ASSUME NEW s \in ProtocolState
    PROVE  LET t == ApplyShutdown(s).next IN Keeps(s, t) \/ Closes(s, t)
  <1> DEFINE free == ReleaseToServer(s)
             closed == [free EXCEPT
                        !.ws_state = "Disconnected",
                        !.fallback_required = TRUE,
                        !.phase = "FallbackDeferred",
                        !.active_request = None,
                        !.pending_multiview = None,
                        !.phase_deadline = None]
             t == ApplyShutdown(s).next
  <1>1. t \in {s, closed} BY ValidatedNext DEF ApplyShutdown
  <1>2. free \in ProtocolState BY ReleaseToServerType
  <1>3. /\ free.active_session = None /\ free.keyboard_owner = Server
        /\ free.pointer_owner = Server /\ free.request_epoch = s.request_epoch
        /\ free.switch_epoch = s.switch_epoch /\ free.effects = s.effects
        /\ free.request_history = s.request_history
    BY DEF ReleaseToServer, ProtocolState
  <1> HIDE DEF free, t
  <1>4. /\ closed.ws_state = "Disconnected" /\ closed.fallback_required
        /\ closed.phase = "FallbackDeferred" /\ closed.active_request = None
        /\ closed.pending_multiview = None
        /\ closed.active_session = None /\ closed.keyboard_owner = Server
        /\ closed.pointer_owner = Server /\ closed.request_epoch = s.request_epoch
        /\ closed.switch_epoch = s.switch_epoch /\ closed.effects = s.effects
        /\ closed.request_history = s.request_history
    BY SMTT(40), <1>2, <1>3 DEF ProtocolState
  <1> HIDE DEF closed
  <1>5. Carries(s, closed) BY <1>4 DEF Carries, Tidy, NoViewCommand
  <1>6. Closes(s, closed) BY <1>4, <1>5 DEF Closes, DaemonHealthy
  <1> QED BY <1>1, <1>6, KeepsItself DEF t

(* A request is entered into the state before its display command is sent. *)
Prepares(s, u, id, target, lease) ==
    /\ SameDisplay(s, u) /\ Carries(s, u)
    /\ u.ws_state = s.ws_state
    /\ u.request_epoch = s.request_epoch + 1 /\ u.grant_epoch = s.grant_epoch
    /\ u.active_request \in EnterRequest
    /\ u.active_request.request_id = id /\ u.active_request.target = target
    /\ u.active_request.request_epoch = u.request_epoch /\ u.active_request.lease = lease
    /\ u.active_request.grant = None
    /\ \/ /\ u.active_session = None
          /\ u.keyboard_owner = Server /\ u.pointer_owner = Server
       \/ /\ u.active_session = s.active_session
          /\ u.keyboard_owner = s.keyboard_owner /\ u.pointer_owner = s.pointer_owner
    /\ u.request_history = s.request_history

(* What apply() has checked before it starts a request. *)
MayStart(s, id, lease) ==
    /\ s.active_request = None /\ DaemonHealthy(s) /\ ~s.fallback_required
    /\ Archived(s, id) = {} /\ lease.expires # 0

LEMMA PreparedStarts ==
    ASSUME NEW s \in ProtocolState, NEW u \in ProtocolState, NEW id, NEW target, NEW lease,
           MayStart(s, id, lease), Prepares(s, u, id, target, lease)
    PROVE  Starts(s, BeginSwitch(u), id, target, lease)
  <1> DEFINE t == BeginSwitch(u)
  <1>1. Commands(u, t) BY BeginSwitchFields DEF Prepares
  <1> HIDE DEF t
  <1>2. Carries(s, t) BY <1>1 DEF Carries, Commands, Prepares
  <1>3. Granted(u, t) => Granted(s, t) BY DEF Granted, Prepares
  <1>4. /\ t.active_request \in EnterRequest
        /\ t.active_request.request_id = id /\ t.active_request.target = target
        /\ t.active_request.request_epoch = t.request_epoch /\ t.active_request.lease = lease
    BY <1>1 DEF Commands, SameRequest, Prepares
  <1>5. /\ t.ws_state = s.ws_state /\ t.request_epoch = s.request_epoch + 1
        /\ t.request_history = s.request_history
        /\ t.fallback_required = s.fallback_required
        /\ t.pending_multiview = s.pending_multiview
        /\ t.switch_epoch = s.switch_epoch + 1
        /\ t.active_request.switch_epoch = t.switch_epoch
    BY <1>1 DEF Commands, Prepares, SameDisplay
  <1>6. \/ Granted(s, t)
        \/ /\ t.active_request.status = "Switching" /\ t.phase = "Switching"
           /\ t.active_request.grant = None
           /\ t.grant_epoch = s.grant_epoch /\ t.verified_epoch = s.verified_epoch
    BY <1>1, <1>3 DEF Commands, Prepares, SameDisplay
  <1>7. \/ /\ t.active_session = None
           /\ t.keyboard_owner = Server /\ t.pointer_owner = Server
        \/ /\ t.active_session = s.active_session
           /\ t.keyboard_owner = s.keyboard_owner /\ t.pointer_owner = s.pointer_owner
    BY <1>1 DEF Commands, Prepares
  <1> HIDE DEF Prepares
  <1> QED BY <1>2, <1>4, <1>5, <1>6, <1>7, ZenonT(60) DEF Starts, MayStart, t

(* The four outcomes of a new request. *)
LEMMA StartRequestMove ==
    ASSUME NEW s \in ProtocolState, NEW id \in Requests, NEW target \in Hosts,
           NEW lease \in LeaseIdentity, MayStart(s, id, lease)
    PROVE  LET t == StartRequest(s, id, target, lease)
           IN  Starts(s, t, id, target, lease) \/ Denies(s, t)
  <1> DEFINE epoch == s.request_epoch + 1
             request == [request_id |-> id, target |-> target,
                         request_epoch |-> epoch, lease |-> lease,
                         status |-> "Switching", switch_epoch |-> None, grant |-> None,
                         deadline |-> COMMAND_MS]
             asleep == [request EXCEPT !.status = "Waking", !.deadline = WAKE_MS]
             fresh == [s EXCEPT !.manual_recovery_target = None, !.request_epoch = epoch]
             free == ReleaseToServer(fresh)
             local == [free EXCEPT !.active_request = request]
             woken == [fresh EXCEPT !.phase = "Waking", !.phase_deadline = WAKE_MS,
                                    !.active_request = asleep]
             denied == [fresh EXCEPT !.manual_recovery_target = target]
             routed == [fresh EXCEPT !.active_request = request]
             wake == [type |-> "Wake", target |-> target]
             refused == ArchiveRequest(denied, request, "Denied")
             t == StartRequest(s, id, target, lease)
  <1>1. t \in {BeginSwitch(local), Emit(woken, wake), refused, BeginSwitch(routed)}
    BY ZenonT(60) DEF StartRequest
  <1>2. epoch \in Nat BY DEF ProtocolState
  <1>3. COMMAND_MS \in Nat /\ WAKE_MS \in Nat BY ConfigAssumption
  <1>4. wake \in Effect /\ wake.type # "SetMultiView" BY DEF Effect
  <1> HIDE DEF epoch, wake, t
  <1>5. /\ request \in EnterRequest
        /\ request.request_id = id /\ request.target = target
        /\ request.request_epoch = epoch /\ request.lease = lease /\ request.grant = None
    BY <1>2, <1>3 DEF EnterRequest, LiveStatus, Option
  <1>6. asleep \in EnterRequest
    BY ZenonT(60), <1>2, <1>3 DEF EnterRequest, LiveStatus, Option
  <1>7. /\ asleep.request_id = id /\ asleep.target = target
        /\ asleep.request_epoch = epoch /\ asleep.lease = lease /\ asleep.grant = None
        /\ asleep.status = "Waking" /\ asleep.switch_epoch = None
    OBVIOUS
  <1>8. fresh \in ProtocolState BY ZenonT(60), <1>2, FreshUpdate DEF Option
  <1>9. /\ SameDisplay(s, fresh) /\ fresh.ws_state = s.ws_state
        /\ fresh.request_epoch = epoch /\ fresh.grant_epoch = s.grant_epoch
        /\ fresh.active_request = s.active_request /\ fresh.active_session = s.active_session
        /\ fresh.keyboard_owner = s.keyboard_owner /\ fresh.pointer_owner = s.pointer_owner
        /\ fresh.request_history = s.request_history /\ fresh.effects = s.effects
        /\ fresh.phase = s.phase /\ fresh.phase_deadline = s.phase_deadline
    BY DEF SameDisplay, ProtocolState
  <1> HIDE DEF request, asleep, fresh
  <1>10. free \in ProtocolState BY <1>8, ReleaseToServerType
  <1>11. /\ SameDisplay(fresh, free) /\ free.ws_state = fresh.ws_state
         /\ free.request_epoch = epoch /\ free.grant_epoch = fresh.grant_epoch
         /\ free.active_session = None
         /\ free.keyboard_owner = Server /\ free.pointer_owner = Server
         /\ free.request_history = fresh.request_history /\ free.effects = fresh.effects
    BY SMTT(40), <1>8, <1>9 DEF SameDisplay, ReleaseToServer, ProtocolState
  <1> HIDE DEF free
  <1>12. Starts(s, BeginSwitch(local), id, target, lease)
    <2>1. local \in ProtocolState BY SMTT(40), <1>5, <1>10, RequestUpdate DEF Option
    <2>2. /\ SameDisplay(free, local) /\ local.ws_state = free.ws_state
          /\ local.request_epoch = epoch /\ local.grant_epoch = free.grant_epoch
          /\ local.active_session = None
          /\ local.keyboard_owner = Server /\ local.pointer_owner = Server
          /\ local.request_history = free.request_history /\ local.effects = free.effects
          /\ local.active_request = request
      BY SMTT(40), <1>10, <1>11 DEF SameDisplay, ProtocolState
    <2> HIDE DEF local
    <2>3. Carries(s, local) BY SMTT(40), <1>9, <1>11, <2>2 DEF Carries, Tidy, NoViewCommand
    <2>4. Prepares(s, local, id, target, lease)
      BY <1>5, <1>9, <1>11, <2>2, <2>3 DEF Prepares, SameDisplay, epoch
    <2> QED BY <2>1, <2>4, PreparedStarts
  <1>13. Starts(s, BeginSwitch(routed), id, target, lease)
    <2>1. routed \in ProtocolState BY <1>5, <1>8, RequestUpdate DEF Option
    <2>2. /\ SameDisplay(fresh, routed) /\ routed.ws_state = fresh.ws_state
          /\ routed.request_epoch = epoch /\ routed.grant_epoch = fresh.grant_epoch
          /\ routed.active_session = fresh.active_session
          /\ routed.keyboard_owner = fresh.keyboard_owner
          /\ routed.pointer_owner = fresh.pointer_owner
          /\ routed.request_history = fresh.request_history /\ routed.effects = fresh.effects
          /\ routed.active_request = request
      BY SMTT(40), <1>8, <1>9 DEF SameDisplay, ProtocolState
    <2> HIDE DEF routed
    <2>3. Carries(s, routed) BY <1>9, <2>2 DEF Carries, Tidy, NoViewCommand
    <2>4. Prepares(s, routed, id, target, lease)
      BY <1>5, <1>9, <2>2, <2>3 DEF Prepares, SameDisplay, epoch
    <2> QED BY <2>1, <2>4, PreparedStarts
  <1>14. Starts(s, Emit(woken, wake), id, target, lease)
    <2> DEFINE sent == Emit(woken, wake)
    <2>1. woken \in ProtocolState BY ZenonT(60), <1>3, <1>6, <1>8, WokenUpdate DEF Option
    <2>2. /\ SameDisplay(fresh, woken) /\ woken.ws_state = fresh.ws_state
          /\ woken.request_epoch = epoch /\ woken.grant_epoch = fresh.grant_epoch
          /\ woken.active_session = fresh.active_session
          /\ woken.keyboard_owner = fresh.keyboard_owner
          /\ woken.pointer_owner = fresh.pointer_owner
          /\ woken.request_history = fresh.request_history /\ woken.effects = fresh.effects
          /\ woken.active_request = asleep /\ woken.phase = "Waking"
      BY SMTT(40), <1>8, <1>9 DEF SameDisplay, ProtocolState
    <2> HIDE DEF woken
    <2>3. Carries(s, woken) BY <1>9, <2>2 DEF Carries, Tidy, NoViewCommand
    <2>4. /\ SameWork(woken, sent) /\ SameDisplay(woken, sent) /\ Carries(woken, sent)
          /\ sent.ws_state = woken.ws_state /\ sent.phase = woken.phase
      BY <1>4, <2>1, EmitFields
    <2> HIDE DEF sent
    <2>5. Carries(s, sent) BY SMTT(40), <2>3, <2>4 DEF Carries
    <2>6. /\ sent.active_request = asleep /\ sent.phase = "Waking"
          /\ sent.ws_state = s.ws_state /\ sent.request_epoch = s.request_epoch + 1
          /\ sent.switch_epoch = s.switch_epoch /\ sent.grant_epoch = s.grant_epoch
          /\ sent.verified_epoch = s.verified_epoch
          /\ sent.active_session = s.active_session
          /\ sent.keyboard_owner = s.keyboard_owner /\ sent.pointer_owner = s.pointer_owner
          /\ sent.request_history = s.request_history
          /\ sent.fallback_required = s.fallback_required
          /\ sent.pending_multiview = s.pending_multiview
      BY <1>9, <2>2, <2>4 DEF SameWork, SameDisplay, epoch
    <2>7. sent.request_epoch = epoch BY <2>6 DEF epoch
    <2> QED BY <1>6, <1>7, <2>5, <2>6, <2>7, ZenonT(60) DEF Starts, MayStart, sent
  <1>15. Denies(s, refused)
    <2> DEFINE history == refused.request_history
               kept == [denied EXCEPT !.request_history = history]
    <2>1. denied \in ProtocolState BY <1>8, RecoveryUpdate DEF Option
    <2>0. "Denied" \in FinalStatus BY DEF FinalStatus
    <2> HIDE DEF denied
    <2>2. refused = kept /\ (Tidy(denied) => Tidy(refused))
      <3>1. LET u == ArchiveRequest(denied, request, "Denied")
            IN  /\ u = [denied EXCEPT !.request_history = u.request_history]
                /\ Tidy(denied) => Tidy(u)
        BY SMTT(40), <1>5, <2>0, <2>1, ArchiveRequestFields
      <3> QED BY <3>1
    <2> HIDE DEF refused, history
    <2>3. /\ SameDisplay(fresh, denied) /\ denied.ws_state = fresh.ws_state
          /\ denied.request_epoch = epoch /\ denied.active_request = fresh.active_request
          /\ denied.active_session = fresh.active_session
          /\ denied.keyboard_owner = fresh.keyboard_owner
          /\ denied.pointer_owner = fresh.pointer_owner
          /\ denied.phase = fresh.phase /\ denied.phase_deadline = fresh.phase_deadline
          /\ denied.request_history = fresh.request_history /\ denied.effects = fresh.effects
      BY SMTT(40), <1>8, <1>9 DEF SameDisplay, ProtocolState, denied
    <2>4. /\ SameDisplay(denied, kept) /\ kept.ws_state = denied.ws_state
          /\ kept.request_epoch = epoch /\ kept.active_request = denied.active_request
          /\ kept.active_session = denied.active_session
          /\ kept.keyboard_owner = denied.keyboard_owner
          /\ kept.pointer_owner = denied.pointer_owner
          /\ kept.phase = denied.phase /\ kept.phase_deadline = denied.phase_deadline
          /\ kept.effects = denied.effects
      BY SMTT(40), <2>1, <2>3 DEF SameDisplay, ProtocolState
    <2> HIDE DEF kept
    <2>5. Carries(s, refused) BY SMTT(40), <1>9, <2>2, <2>3, <2>4 DEF Carries, Tidy, NoViewCommand
    <2> QED BY SMTT(40), <1>9, <2>2, <2>3, <2>4, <2>5
            DEF Denies, MayStart, SameDisplay, epoch
  <1> QED BY SMTT(40), <1>1, <1>12, <1>13, <1>14, <1>15 DEF t

(* CreateEnter. *)
LEMMA CreateEnterMove ==
    ASSUME NEW s \in ProtocolState, NEW id \in Requests, NEW target \in Hosts,
           NEW lease \in LeaseIdentity
    PROVE  LET t == ApplyCreateEnter(s, id, target, lease).next
           IN  Keeps(s, t) \/ Starts(s, t, id, target, lease) \/ Denies(s, t)
  <1> DEFINE t == ApplyCreateEnter(s, id, target, lease).next
             started == StartRequest(s, id, target, lease)
  <1>1. s.active_request = None /\ KnownIdentity(s, id) = None => Archived(s, id) = {}
    <2> DEFINE at == Archived(s, id)
               entry == s.request_history[Max(at)]
    <2>1. at # {} => Max(at) \in DOMAIN s.request_history
      BY SMTT(40), ArchivedPositions
    <2>2. at # {} => entry \in ArchivedRequest BY <2>1 DEF ProtocolState
    <2>3. at # {} => <<entry.target, entry.lease>> \in Hosts \X Leases
      BY <2>2 DEF ArchivedRequest
    <2>4. at # {} => <<entry.target, entry.lease>> # None BY <2>3, NoneAssumption
    <2> HIDE DEF at, entry
    <2> QED BY <2>4 DEF KnownIdentity, at, entry
  <1>2. \/ t = s
        \/ /\ KnownIdentity(s, id) = None /\ s.active_request = None /\ Ready(s)
           /\ lease.expires # 0 /\ t = started
    BY ValidatedNext DEF ApplyCreateEnter, Ok, Err
  <1> HIDE DEF t, started
  <1>3. t # s => MayStart(s, id, lease) BY <1>1, <1>2 DEF MayStart, Ready
  <1> QED BY <1>2, <1>3, StartRequestMove, KeepsItself DEF t, started

(* commit_enter hands the input over and archives the request. *)
LEMMA CommitRequestMove ==
    ASSUME NEW s \in ProtocolState, s.active_request \in EnterRequest,
           s.active_request.switch_epoch \in Nat,
           s.active_request.status = "Grant", s.active_request.grant # None,
           s.active_request.grant.expires # 0, s.active_request.lease.expires # 0
    PROVE  Commits(s, CommitRequest(s))
  <1> DEFINE request == s.active_request
             lease == [request.lease EXCEPT !.expires = LEASE_MS]
             local == request.target = Server
             session == [request_id |-> request.request_id, target |-> request.target,
                         request_epoch |-> request.request_epoch,
                         switch_epoch |-> request.switch_epoch,
                         lease |-> lease, renewed_until |-> LEASE_MS]
             chosen == IF local THEN None ELSE session
             phase == IF local THEN "Idle" ELSE "RemoteOwned"
             poll == IF ~local /\ HasDisplayRoute(request.target)
                     THEN SIGNAL_POLL_MS ELSE None
             owned == [s EXCEPT
                        !.active_request = None,
                        !.keyboard_owner = request.target,
                        !.pointer_owner = request.target,
                        !.fallback_required = FALSE,
                        !.manual_recovery_target = None,
                        !.phase_deadline = None,
                        !.observation_in_flight = None,
                        !.active_session = chosen,
                        !.phase = phase,
                        !.next_signal_poll = poll]
             t == CommitRequest(s)
             history == t.request_history
             kept == [owned EXCEPT !.request_history = history]
  <1>1. t = ArchiveRequest(owned, request, "Committed") BY DEF CommitRequest
  <1>2. LEASE_MS \in Nat /\ SIGNAL_POLL_MS \in Nat BY ConfigAssumption
  <1>3. lease \in LeaseIdentity BY <1>2 DEF EnterRequest, LeaseIdentity
  <1>4. request.target \in Hosts BY DEF EnterRequest
  <1> HIDE DEF lease, t
  <1>5. session \in ActiveSession BY <1>2, <1>3 DEF EnterRequest, ActiveSession
  <1> HIDE DEF session
  <1>6. chosen \in Option(ActiveSession) BY <1>5 DEF Option
  <1>7. phase \in Phases /\ poll \in Option(Nat) BY <1>2 DEF Phases, Option
  <1>8. request \in EnterRequest OBVIOUS
  <1> HIDE DEF chosen, phase, poll, request
  <1>9. owned \in ProtocolState BY ZenonT(60), <1>4, <1>6, <1>7, NoneOption, OwnedUpdate
  <1>10. /\ owned.ws_state = s.ws_state /\ owned.active_request = None
         /\ owned.keyboard_owner = request.target /\ owned.pointer_owner = request.target
         /\ owned.active_session = chosen /\ owned.phase = phase
         /\ owned.request_epoch = s.request_epoch /\ owned.switch_epoch = s.switch_epoch
         /\ ~owned.fallback_required /\ owned.effects = s.effects
         /\ owned.request_history = s.request_history
    BY DEF ProtocolState
  <1> HIDE DEF owned
  <1>11. "Committed" \in FinalStatus BY DEF FinalStatus
  <1>12. LET u == ArchiveRequest(owned, request, "Committed")
         IN  /\ u = [owned EXCEPT !.request_history = u.request_history]
             /\ Tidy(owned) => Tidy(u)
    BY <1>8, <1>9, <1>11, ArchiveRequestFields
  <1>13. t = kept /\ (Tidy(owned) => Tidy(t)) BY <1>1, <1>12
  <1> HIDE DEF history
  <1>14. /\ kept.ws_state = owned.ws_state /\ kept.active_request = owned.active_request
         /\ kept.keyboard_owner = owned.keyboard_owner
         /\ kept.pointer_owner = owned.pointer_owner
         /\ kept.active_session = owned.active_session /\ kept.phase = owned.phase
         /\ kept.request_epoch = owned.request_epoch
         /\ kept.switch_epoch = owned.switch_epoch
         /\ kept.fallback_required = owned.fallback_required
         /\ kept.effects = owned.effects
    BY <1>9 DEF ProtocolState
  <1> HIDE DEF kept
  <1>15. Carries(s, t) BY SMTT(40), <1>10, <1>13, <1>14 DEF Carries, Tidy, NoViewCommand
  <1>16. /\ t.ws_state = s.ws_state /\ t.active_request = None
         /\ t.keyboard_owner = request.target /\ t.pointer_owner = request.target
         /\ t.active_session = chosen /\ t.phase = phase
         /\ t.request_epoch = s.request_epoch /\ t.switch_epoch = s.switch_epoch
         /\ ~t.fallback_required /\ t.effects = s.effects
    BY <1>10, <1>13, <1>14
  <1>17. request # None BY <1>8, NoneAssumption
  <1>18. request.target # Server => t.active_session \in ActiveSession
    BY SMTT(40), <1>5, <1>16 DEF chosen
  <1> QED BY <1>15, <1>16, <1>17, <1>18 DEF Commits, chosen, phase, session, lease, request, t

(* Commit. *)
LEMMA CommitMove ==
    ASSUME NEW s \in ProtocolState,
           s.active_request # None =>
                (s.active_request.status = "Grant" => s.active_request.switch_epoch \in Nat),
           NEW id, NEW requestEpoch, NEW grantEpoch, NEW lease
    PROVE  LET t == ApplyCommit(s, id, requestEpoch, grantEpoch, lease).next
           IN  Keeps(s, t) \/ Falls(s, t) \/ Commits(s, t)
  <1> DEFINE t == ApplyCommit(s, id, requestEpoch, grantEpoch, lease).next
             request == s.active_request
             usable == /\ request # None /\ request.grant # None
                       /\ request.status = "Grant"
                       /\ request.grant.expires # 0 /\ request.lease.expires # 0
  <1>1. t \in {s, BeginFallback(s)} \/ (usable /\ t = CommitRequest(s))
    BY ZenonT(60), ValidatedNext DEF ApplyCommit, Err
  <1>2. usable => Commits(s, CommitRequest(s))
    <2>1. request # None => request \in EnterRequest BY DEF ProtocolState, Option
    <2> QED BY SMTT(40), <2>1, CommitRequestMove
  <1>3. Falls(s, BeginFallback(s)) BY KeepsItself, BeginFallbackMove
  <1> HIDE DEF usable, t
  <1> QED BY <1>1, <1>2, <1>3, KeepsItself DEF t

(* The active request is archived with its final status. *)
LEMMA EndedFields ==
    ASSUME NEW s \in ProtocolState, s.active_request # None, NEW status \in FinalStatus
    PROVE  LET u == [ArchiveRequest(s, s.active_request, status) EXCEPT
                        !.active_request = None,
                        !.manual_recovery_target = IF s.active_request.target # Server
                                                   THEN s.active_request.target ELSE @]
           IN  /\ u \in ProtocolState
               /\ u.active_request = None /\ SameDisplay(s, u) /\ Carries(s, u)
               /\ u.ws_state = s.ws_state /\ u.active_session = s.active_session
               /\ u.keyboard_owner = s.keyboard_owner /\ u.pointer_owner = s.pointer_owner
               /\ u.request_epoch = s.request_epoch
               /\ u.effects = s.effects
               /\ status = "Cancelled" => HasCancelled(u, s.active_request.request_id)
  <1> DEFINE archived == ArchiveRequest(s, s.active_request, status)
             history == archived.request_history
             kept == [s EXCEPT !.request_history = history]
             target == IF s.active_request.target # Server
                       THEN s.active_request.target ELSE archived.manual_recovery_target
             u == [archived EXCEPT !.active_request = None,
                                   !.manual_recovery_target = target]
  <1>1. s.active_request \in EnterRequest BY DEF ProtocolState, Option
  <1>2. archived \in ProtocolState BY <1>1, ArchiveRequestType
  <1>3. LET t == ArchiveRequest(s, s.active_request, status)
        IN  /\ t = [s EXCEPT !.request_history = t.request_history]
            /\ Tidy(s) => Tidy(t)
            /\ Len(t.request_history) \in DOMAIN t.request_history
            /\ t.request_history[Len(t.request_history)].request_id
                    = s.active_request.request_id
            /\ t.request_history[Len(t.request_history)].status = status
    BY <1>1, ArchiveRequestFields
  <1>4. /\ archived = kept /\ (Tidy(s) => Tidy(archived))
        /\ Len(history) \in DOMAIN history
        /\ history[Len(history)].request_id = s.active_request.request_id
        /\ history[Len(history)].status = status
    BY <1>3
  <1>5. u \in ProtocolState BY ZenonT(60), EndedType
  <1> HIDE DEF archived, history, target
  <1>6. /\ SameDisplay(s, kept) /\ kept.ws_state = s.ws_state
        /\ kept.active_session = s.active_session
        /\ kept.keyboard_owner = s.keyboard_owner /\ kept.pointer_owner = s.pointer_owner
        /\ kept.request_epoch = s.request_epoch /\ kept.effects = s.effects
    BY DEF SameDisplay, ProtocolState
  <1> HIDE DEF kept
  <1>7. /\ SameDisplay(archived, u) /\ u.ws_state = archived.ws_state
        /\ u.active_session = archived.active_session
        /\ u.keyboard_owner = archived.keyboard_owner
        /\ u.pointer_owner = archived.pointer_owner
        /\ u.request_epoch = archived.request_epoch /\ u.effects = archived.effects
        /\ u.request_history = archived.request_history /\ u.active_request = None
    BY SMTT(40), <1>2 DEF SameDisplay, ProtocolState
  <1> HIDE DEF u
  <1>8. Carries(s, u) BY SMTT(40), <1>4, <1>6, <1>7 DEF Carries, Tidy, NoViewCommand
  <1>9. status = "Cancelled" => HasCancelled(u, s.active_request.request_id)
    BY <1>4, <1>7 DEF HasCancelled, history
  <1>10. /\ u \in ProtocolState
         /\ u.active_request = None /\ SameDisplay(s, u) /\ Carries(s, u)
         /\ u.ws_state = s.ws_state /\ u.active_session = s.active_session
         /\ u.keyboard_owner = s.keyboard_owner /\ u.pointer_owner = s.pointer_owner
         /\ u.request_epoch = s.request_epoch /\ u.effects = s.effects
    BY SMTT(40), <1>4, <1>5, <1>6, <1>7, <1>8 DEF SameDisplay
  <1> QED BY SMTT(40), <1>9, <1>10 DEF u, target, archived

(* A request that has not touched the display ends without a fallback. *)
LEMMA DropsMove ==
    ASSUME NEW s \in ProtocolState, s.active_request # None,
           s.active_request.switch_epoch = None \/ s.active_request.status = "Waking",
           NEW u \in ProtocolState, u.active_request = None, SameDisplay(s, u), Carries(s, u),
           u.ws_state = s.ws_state, u.active_session = s.active_session,
           u.keyboard_owner = s.keyboard_owner, u.pointer_owner = s.pointer_owner,
           u.request_epoch = s.request_epoch
    PROVE  Drops(s, [u EXCEPT !.phase = "Idle", !.phase_deadline = None])
  <1> DEFINE t == [u EXCEPT !.phase = "Idle", !.phase_deadline = None]
  <1>1. /\ SameDisplay(u, t) /\ t.ws_state = u.ws_state /\ t.active_request = None
        /\ t.active_session = u.active_session
        /\ t.keyboard_owner = u.keyboard_owner /\ t.pointer_owner = u.pointer_owner
        /\ t.request_epoch = u.request_epoch /\ t.effects = u.effects
        /\ t.request_history = u.request_history
        /\ t.phase = "Idle" /\ t.phase_deadline = None
    BY DEF SameDisplay, ProtocolState
  <1> HIDE DEF t
  <1>2. Carries(s, t) BY <1>1 DEF Carries, Tidy, NoViewCommand
  <1> QED BY <1>1, <1>2 DEF Drops, SameDisplay, t

(* A cancelled session: its archived request is marked. *)
LEMMA MarkedLeads ==
    ASSUME NEW s \in ProtocolState, NEW m \in 1 .. Len(s.request_history)
    PROVE  LET u == [s EXCEPT !.request_history[m].status = "Cancelled"]
           IN  u \in ProtocolState /\ Leads(s, u)
  <1> DEFINE history == s.request_history
             entry == [history[m] EXCEPT !.status = "Cancelled"]
             new == [history EXCEPT ![m] = entry]
             u == [s EXCEPT !.request_history[m].status = "Cancelled"]
             v == [s EXCEPT !.request_history = new]
  <1>1. u \in ProtocolState BY ZenonT(60), StatusUpdateType DEF FinalStatus
  <1>2. u = v BY DEF ProtocolState
  <1>3. history \in Seq(ArchivedRequest) BY DEF ProtocolState
  <1>4. history[m] \in ArchivedRequest BY <1>3
  <1>5. entry.request_id = history[m].request_id /\ entry.status = "Cancelled"
    BY <1>4 DEF ArchivedRequest
  <1> HIDE DEF u, entry, history
  <1>6. m \in 1 .. Len(history) BY DEF history
  <1>7. /\ DOMAIN history = 1 .. Len(history) /\ DOMAIN new = DOMAIN history
        /\ Len(new) = Len(history)
    BY <1>3, <1>6
  <1>8. \A k \in DOMAIN history : new[k].request_id = history[k].request_id
    BY <1>5, <1>7
  <1>9. \A k \in DOMAIN history : history[k].status = "Cancelled" => new[k].status = "Cancelled"
    BY <1>5, <1>7
  <1> HIDE DEF new
  <1>10. /\ v.request_history = new /\ v.effects = s.effects
         /\ v.request_epoch = s.request_epoch /\ v.switch_epoch = s.switch_epoch
         /\ v.fallback_required = s.fallback_required /\ v.active_request = s.active_request
    BY DEF ProtocolState
  <1> HIDE DEF v
  <1>11. Tidy(s) => Tidy(v) BY <1>7, <1>8, <1>10 DEF Tidy, history
  <1>12. Carries(s, v) BY SMTT(40), <1>10, <1>11 DEF Carries, NoViewCommand
  <1>13. \A id : HasCancelled(s, id) => HasCancelled(v, id)
    BY SMTT(40), <1>7, <1>8, <1>9, <1>10 DEF HasCancelled, history
  <1>14. MayShow(s) => MayShow(v) BY SMTT(40), <1>10 DEF MayShow
  <1>15. v.switch_epoch >= s.switch_epoch BY <1>10 DEF ProtocolState
  <1>16. Leads(s, v) BY SMTT(40), <1>10, <1>12, <1>13, <1>14, <1>15 DEF Leads
  <1> QED BY <1>1, <1>2, <1>16 DEF u

(* Cancel. *)
LEMMA CancelMove ==
    ASSUME NEW s \in ProtocolState, NEW id
    PROVE  LET t == ApplyCancel(s, id).next IN Keeps(s, t) \/ Falls(s, t) \/ Drops(s, t)
  <1> DEFINE at == Archived(s, id)
             request == s.active_request
             ended == [ArchiveRequest(s, s.active_request, "Cancelled") EXCEPT
                        !.active_request = None,
                        !.manual_recovery_target =
                            IF s.active_request.target # Server
                            THEN s.active_request.target ELSE @]
             marked == [s EXCEPT !.request_history[Max(at)].status = "Cancelled"]
             gone == [ended EXCEPT !.phase = "Idle", !.phase_deadline = None]
             t == ApplyCancel(s, id).next
  <1>1. \/ t = s \/ (at # {} /\ t = BeginFallback(marked))
        \/ request # None /\ t = BeginFallback(ended)
        \/ request # None /\ request.switch_epoch = None /\ t = gone
    BY ValidatedNext DEF ApplyCancel, Err
  <1>2. at # {} => marked \in ProtocolState /\ Leads(s, marked)
    BY ZenonT(60), ArchivedPositions, MarkedLeads
  <1>3. "Cancelled" \in FinalStatus BY DEF FinalStatus
  <1>4. request # None =>
            /\ ended \in ProtocolState
            /\ ended.active_request = None /\ SameDisplay(s, ended) /\ Carries(s, ended)
            /\ ended.ws_state = s.ws_state /\ ended.active_session = s.active_session
            /\ ended.keyboard_owner = s.keyboard_owner
            /\ ended.pointer_owner = s.pointer_owner
            /\ ended.request_epoch = s.request_epoch
            /\ HasCancelled(ended, s.active_request.request_id)
    BY ZenonT(60), <1>3, EndedFields
  <1> HIDE DEF at, ended, marked, t
  <1>5. at # {} => Falls(s, BeginFallback(marked)) BY SMTT(40), <1>2, BeginFallbackMove
  <1>6. request # None => Falls(s, BeginFallback(ended))
    <2>1. request # None => DisplayRestoreRequired(ended) \in BOOLEAN
      BY <1>4 DEF DisplayRestoreRequired, ProtocolState
    <2>2. request # None /\ s.fallback_required => DisplayRestoreRequired(ended)
      BY ZenonT(60), <1>4 DEF DisplayRestoreRequired, SameDisplay
    <2>3. request # None => ended.switch_epoch = s.switch_epoch
      BY ZenonT(60), <1>4 DEF SameDisplay
    <2>4. \A n \in Nat : n >= n OBVIOUS
    <2>5. s.switch_epoch \in Nat BY DEF ProtocolState
    <2>6. request # None => ended.switch_epoch >= s.switch_epoch
      BY ZenonT(60), <2>3, <2>4, <2>5
    <2> QED BY SMTT(40), <1>4, <2>1, <2>2, <2>6, FallbackFalls DEF BeginFallback
  <1>7. request # None /\ request.switch_epoch = None => Drops(s, gone)
    BY ZenonT(60), <1>4, DropsMove
  <1> HIDE DEF request, gone
  <1> QED BY SMTT(40), <1>1, <1>5, <1>6, <1>7, KeepsItself DEF t

(* An expired request that has touched the display ends in a fallback. *)
LEMMA ExpireRequestMove ==
    ASSUME NEW s \in ProtocolState
    PROVE  LET u == ExpireRequest(s)
           IN  /\ u \in ProtocolState
               /\ u = s \/ Drops(s, u) \/ Falls(s, u)
  <1> DEFINE request == s.active_request
             expired == [ArchiveRequest(s, s.active_request, "Expired") EXCEPT
                            !.active_request = None,
                            !.manual_recovery_target =
                                IF s.active_request.target # Server
                                THEN s.active_request.target ELSE @]
             gone == [expired EXCEPT !.phase = "Idle", !.phase_deadline = None]
             restore == DisplayRestoreRequired(s)
             fallen == BeginFallbackWithRestore(expired, restore)
             u == ExpireRequest(s)
  <1>1. \/ u = s
        \/ request # None /\ request.status = "Waking" /\ u = gone
        \/ request # None /\ u = fallen
    BY DEF ExpireRequest
  <1>2. "Expired" \in FinalStatus BY DEF FinalStatus
  <1>3. request # None =>
            /\ expired \in ProtocolState
            /\ expired.active_request = None /\ SameDisplay(s, expired) /\ Carries(s, expired)
            /\ expired.ws_state = s.ws_state /\ expired.active_session = s.active_session
            /\ expired.keyboard_owner = s.keyboard_owner
            /\ expired.pointer_owner = s.pointer_owner
            /\ expired.request_epoch = s.request_epoch
    BY ZenonT(60), <1>2, EndedFields
  <1>4. restore \in BOOLEAN BY DEF DisplayRestoreRequired, ProtocolState
  <1>5. s.fallback_required => restore BY DEF DisplayRestoreRequired
  <1>6. MayShow(s) => restore BY DEF MayShow, DisplayRestoreRequired, RoutedRemote
  <1> HIDE DEF expired, restore, u
  <1>7. request # None /\ request.status = "Waking" => Drops(s, gone) BY ZenonT(60), <1>3, DropsMove
  <1>8. request # None => Falls(s, fallen)
    <2>1. request # None => expired.switch_epoch >= s.switch_epoch
      BY SMTT(40), <1>3 DEF SameDisplay, ProtocolState
    <2> QED BY SMTT(40), <1>3, <1>4, <1>5, <1>6, <2>1, FallbackFalls
  <1>9. u \in ProtocolState BY ExpireRequestType DEF u
  <1> HIDE DEF gone, fallen, request
  <1> QED BY <1>1, <1>7, <1>8, <1>9 DEF u

(* Tick. *)
LEMMA TickMove ==
    ASSUME NEW s \in ProtocolState,
           s.phase = "RemoteOwned" => s.active_session # None,
           s.active_request # None =>
                (s.active_request.status = "Waking" => s.active_request.switch_epoch = None)
    PROVE  LET t == ApplyTick(s).next
           IN  Keeps(s, t) \/ Drops(s, t) \/ Falls(s, t) \/ Retries(s, t)
  <1> DEFINE u == ExpireRequest(s)
             session == u.active_session
             due == u.phase_deadline = 0
             failed == BeginActiveSessionFailureFallback(u)
             asked == RequestObservation(u, session.switch_epoch)
             fallen == BeginFallback(u)
             again == IssueFallbackCommand(u)
             stuck == \/ u.phase \in {"FallbackCommandPending", "FallbackVerifying"} /\ due
                      \/ u.phase = "FallbackDeferred" /\ DaemonHealthy(u)
             t == ApplyTick(s).next
  <1>1. \/ t \in {s, u}
        \/ session # None /\ t = failed
        \/ u.phase = "RemoteOwned" /\ t = asked
        \/ due /\ t \in {failed, fallen}
        \/ stuck /\ t = again
    BY ZenonT(60), ValidatedNext DEF ApplyTick
  <1>2. u \in ProtocolState /\ (u = s \/ Drops(s, u) \/ Falls(s, u)) BY ExpireRequestMove
  <1> HIDE DEF u, t
  <1>3. CASE u = s
    <2>1. Falls(s, failed) /\ Falls(s, fallen)
      BY SMTT(40), <1>3, KeepsItself, SessionFailureMove, BeginFallbackMove
    <2>2. u.phase = "RemoteOwned" => Keeps(s, asked)
      <3>1. s.active_session # None => s.active_session.switch_epoch \in Nat
        BY DEF ProtocolState, Option, ActiveSession
      <3>2. OBSERVATION_MS # None BY ConfigAssumption, NoneAssumption
      <3> QED BY SMTT(40), <1>3, <3>1, <3>2, RequestObservationFields DEF Keeps
    <2>3. stuck => Retries(s, again)
      <3>1. COMMAND_MS # None BY ConfigAssumption, NoneAssumption
      <3> QED BY ZenonT(60), <1>3, <3>1, IssueFallbackCommandFields DEF Retries
    <2> HIDE DEF failed, fallen, asked, again, stuck
    <2> QED BY SMTT(40), <1>1, <1>3, <2>1, <2>2, <2>3, KeepsItself DEF t
  <1>4. CASE Drops(s, u)
    <2>1. u.phase = "Idle" /\ ~due /\ ~stuck
      BY SMTT(40), <1>4, NoneAssumption DEF Drops
    <2>2. Leads(s, u)
      <3>1. ~MayShow(s) /\ s.active_request # None BY SMTT(40), <1>4 DEF Drops, MayShow
      <3>2. u.switch_epoch >= s.switch_epoch BY <1>4 DEF Drops, SameDisplay, ProtocolState
      <3> QED BY SMTT(40), <1>4, <3>1, <3>2 DEF Leads, Drops, SameDisplay
    <2>3. Falls(s, failed) BY SMTT(40), <1>2, <2>2, SessionFailureMove
    <2> HIDE DEF failed, fallen, asked, again, stuck, due
    <2> QED BY ZenonT(60), <1>1, <1>4, <2>1, <2>3, KeepsItself DEF t
  <1>5. CASE Falls(s, u)
    <2>1. session = None /\ u.phase # "RemoteOwned" /\ ~due /\ ~stuck
      BY <1>5, NoneAssumption, ConfigAssumption DEF Falls, Fallen
    <2> HIDE DEF failed, fallen, asked, again, stuck, due
    <2> QED BY SMTT(40), <1>1, <1>5, <2>1, KeepsItself DEF t
  <1> QED BY <1>2, <1>3, <1>4, <1>5

--------------------------------------------------------------------------------

(* The transport's events make moves. *)
LEMMA TransportStepMoves ==
    ASSUME st \in ProtocolState, TransportStep
    PROVE  MovingTurn
  <1> USE DEF Handle
  <1>1. CASE TransportConnecting \/ TransportRegistering \/ TransportSubscribed
    <2>1. ~DaemonHealthy(st)
      BY <1>1 DEF TransportConnecting, TransportRegistering, TransportSubscribed, DaemonHealthy
    <2>2. PICK result \in {ApplyTransportConnecting(st), ApplyTransportRegistering(st),
                           ApplyTransportSubscribed(st)} : Turn(result, {})
      BY <1>1 DEF TransportConnecting, TransportRegistering, TransportSubscribed
    <2>3. result.next \in ProtocolState BY TransportTypes
    <2>4. Keeps(st, result.next) \/ Connects(st, result.next)
      BY <2>1, LifecycleMove
    <2> QED BY <2>2, <2>3, <2>4, ZenonT(60) DEF MovingTurn, Moves
  <1>2. ASSUME NEW input \in Inputs, NEW signals \in Signals,
               TransportSynchronized(input, signals)
        PROVE  MovingTurn
    <2> DEFINE result == ApplyTransportSynchronized(st, "Fullscreen", input, signals)
    <2>1. /\ input \in Option(Hosts) /\ signals \in [DisplayHosts -> BOOLEAN]
          /\ "Fullscreen" \in TvModes
      BY EnvironmentTypes, EnvironmentAssumption DEF TvModes
    <2>2. ~DaemonHealthy(st) BY <1>2 DEF TransportSynchronized, DaemonHealthy
    <2>3. result.next \in ProtocolState BY <2>1, ApplyTransportSynchronizedType
    <2>4. \/ Keeps(st, result.next) \/ Finishes(st, result.next) \/ Accepts(st, result.next)
          \/ Falls(st, result.next)
      BY <2>1, <2>2, SynchronizedMove
    <2>5. Turn(result, {}) BY <1>2 DEF TransportSynchronized
    <2> HIDE DEF result
    <2> QED BY <2>3, <2>4, <2>5, ZenonT(60) DEF MovingTurn, Moves
  <1>3. CASE TransportDisconnected
    <2> DEFINE result == ApplyTransportDisconnected(st)
    <2>1. result.next \in ProtocolState BY TransportTypes
    <2>2. Keeps(st, result.next) \/ Falls(st, result.next) BY DisconnectedMove
    <2>3. Turn(result, {}) BY <1>3 DEF TransportDisconnected
    <2> HIDE DEF result
    <2> QED BY <2>1, <2>2, <2>3, ZenonT(60) DEF MovingTurn, Moves
  <1> QED BY <1>1, <1>2, <1>3 DEF TransportStep

(* The TV's answers, late or out of order, make moves. *)
LEMMA TvAnswerMoves ==
    ASSUME st \in ProtocolState, pending \subseteq Effect, \A e \in pending : ViewFits(st, e),
           TvAnswer
    PROVE  MovingTurn
  <1> USE DEF Handle
  <1>0. \A e \in pending : e.type # "Wake" => e.switch_epoch \in Nat
    BY EnvironmentTypes
  <1>1. ASSUME NEW e \in pending, CommandAcknowledged(e) PROVE MovingTurn
    <2> DEFINE result == ApplyCommandAcknowledged(st, e.switch_epoch, e.target)
    <2>1. e.switch_epoch \in Nat BY <1>1, <1>0 DEF CommandAcknowledged
    <2>2. result.next \in ProtocolState BY <2>1, ApplyCommandAcknowledgedType
    <2>3. Keeps(st, result.next) \/ Acknowledges(st, result.next)
      BY <2>1, AcknowledgedMove
    <2>4. Turn(result, {e}) BY <1>1 DEF CommandAcknowledged
    <2> HIDE DEF result
    <2> QED BY <2>2, <2>3, <2>4, ZenonT(60) DEF MovingTurn, Moves
  <1>2. ASSUME NEW e \in pending, CommandFailed(e) PROVE MovingTurn
    <2> DEFINE result == ApplyCommandFailed(st, e.switch_epoch)
    <2>1. result.next \in ProtocolState BY ApplyCommandFailedType
    <2>2. Keeps(st, result.next) \/ Falls(st, result.next) BY FailedMove
    <2>3. Turn(result, {e}) BY <1>2 DEF CommandFailed
    <2> HIDE DEF result
    <2> QED BY <2>1, <2>2, <2>3, ZenonT(60) DEF MovingTurn, Moves
  <1>3. ASSUME NEW e \in pending, NEW mode \in Modes, NEW input \in Inputs,
               NEW signals \in Signals, Observation(e, mode, input, signals)
        PROVE  MovingTurn
    <2> DEFINE result == ApplyObservation(st, e.switch_epoch, mode, input, signals)
    <2>1. e.switch_epoch \in Nat /\ DaemonHealthy(st)
      BY <1>3, <1>0 DEF Observation, DaemonHealthy
    <2>2. /\ input \in Option(Hosts) /\ signals \in [DisplayHosts -> BOOLEAN]
          /\ mode \in TvModes
      BY EnvironmentTypes, EnvironmentAssumption
    <2>3. result.next \in ProtocolState BY <2>1, <2>2, ApplyObservationType
    <2>4. \/ Keeps(st, result.next) \/ Finishes(st, result.next) \/ Waits(st, result.next)
          \/ Grants(st, result.next) \/ CompletesView(st, result.next)
          \/ Falls(st, result.next)
      BY <2>1, <2>2, ObservationMove
    <2>5. Turn(result, {e}) BY <1>3 DEF Observation
    <2> HIDE DEF result
    <2> QED BY <2>3, <2>4, <2>5, ZenonT(60) DEF MovingTurn, Moves
  <1>4. ASSUME NEW e \in pending, MultiViewAcknowledged(e) PROVE MovingTurn
    <2> DEFINE result == ApplyMultiViewAcknowledged(st, e.switch_epoch, e.enabled)
    <2>1. /\ e.switch_epoch \in Nat /\ e.type = "SetMultiView" /\ DaemonHealthy(st)
      BY <1>4, <1>0 DEF MultiViewAcknowledged, DaemonHealthy
    <2>2. e.enabled \in BOOLEAN BY <2>1 DEF Effect
    <2>3. result.next \in ProtocolState BY <2>1, ApplyMultiViewAcknowledgedType
    <2>4. \/ Keeps(st, result.next)
          \/ st.switch_epoch = e.switch_epoch /\ ChangesView(st, result.next)
      BY <2>1, <2>2, MultiViewAcknowledgedMove
    <2>5. st.switch_epoch = e.switch_epoch =>
            st.active_request = None \/ st.active_request.switch_epoch = None
      BY <2>1 DEF ViewFits
    <2>6. Turn(result, {e}) BY <1>4 DEF MultiViewAcknowledged
    <2> HIDE DEF result
    <2> QED BY <2>1, <2>3, <2>4, <2>5, <2>6, ZenonT(60) DEF MovingTurn, Moves
  <1>5. ASSUME NEW mode \in Modes, NEW input \in Inputs, SubscriptionObserved(mode, input)
        PROVE  MovingTurn
    <2> DEFINE result == ApplySubscriptionObserved(st, mode, input)
    <2>1. input \in Option(Hosts) /\ mode \in TvModes
      BY EnvironmentTypes, EnvironmentAssumption
    <2>2. result.next \in ProtocolState BY <2>1, ApplySubscriptionObservedType
    <2>3. Keeps(st, result.next) \/ Accepts(st, result.next) \/ Falls(st, result.next)
      BY <2>1, SubscriptionMove
    <2>4. Turn(result, {}) BY SMTT(40), <1>5 DEF SubscriptionObserved
    <2> HIDE DEF result
    <2> QED BY <2>2, <2>3, <2>4, ZenonT(60) DEF MovingTurn, Moves
  <1> QED BY <1>1, <1>2, <1>3, <1>4, <1>5 DEF TvAnswer

(* The clients' and peers' calls make moves. *)
LEMMA ClientStepMoves ==
    ASSUME st \in ProtocolState, ClientStep,
           st.active_request # None =>
                (st.active_request.status = "Grant" => st.active_request.switch_epoch \in Nat)
    PROVE  MovingTurn
  <1> USE DEF Handle
  <1>1. ASSUME NEW host \in Hosts \ {Server}, NEW readiness \in Readiness,
               PeerReadinessUpdated(host, readiness)
        PROVE  MovingTurn
    <2> DEFINE result == ApplyPeerReadinessUpdated(st, host, readiness)
    <2>1. host \in Hosts /\ readiness \in PeerReadiness BY EnvironmentTypes
    <2>2. result.next \in ProtocolState BY SMTT(40), <2>1, ApplyPeerReadinessUpdatedType
    <2>3. Keeps(st, result.next) \/ Falls(st, result.next) \/ Switches(st, result.next)
      BY <2>1, PeerReadinessMove
    <2>4. Turn(result, {}) BY <1>1 DEF PeerReadinessUpdated
    <2> HIDE DEF result
    <2> QED BY <2>2, <2>3, <2>4, ZenonT(60) DEF MovingTurn, Moves
  <1>2. ASSUME NEW target \in Hosts, ArmManualRecovery(target) PROVE MovingTurn
    <2> DEFINE result == ApplyArmManualRecovery(st, target)
    <2>1. result.next \in ProtocolState BY ApplyArmManualRecoveryType
    <2>2. Keeps(st, result.next) BY ArmManualRecoveryMove
    <2>3. Turn(result, {}) BY <1>2 DEF ArmManualRecovery
    <2> HIDE DEF result
    <2> QED BY <2>1, <2>2, <2>3, ZenonT(60) DEF MovingTurn, Moves
  <1>3. ASSUME NEW id \in Requests, NEW target \in Hosts, NEW lease \in OfferedLeases,
               CreateEnter(id, target, lease)
        PROVE  MovingTurn
    <2> DEFINE result == ApplyCreateEnter(st, id, target, lease)
    <2>1. lease \in LeaseIdentity BY EnvironmentTypes
    <2>2. result.next \in ProtocolState BY <2>1, ApplyCreateEnterType
    <2>3. \/ Keeps(st, result.next) \/ Denies(st, result.next)
          \/ Starts(st, result.next, id, target, lease)
      BY <2>1, CreateEnterMove
    <2>4. Turn(result, {}) BY <1>3 DEF CreateEnter
    <2> HIDE DEF result
    <2> QED BY <2>2, <2>3, <2>4, ZenonT(60) DEF MovingTurn, Moves
  <1>4. ASSUME NEW id \in Requests, NEW r, NEW g, NEW lease \in Leases, Commit(id, r, g, lease)
        PROVE  MovingTurn
    <2> DEFINE result == ApplyCommit(st, id, r, g, lease)
    <2>1. result.next \in ProtocolState BY ApplyCommitType
    <2>2. Keeps(st, result.next) \/ Falls(st, result.next) \/ Commits(st, result.next)
      BY CommitMove
    <2>3. Turn(result, {}) BY <1>4 DEF Commit
    <2> HIDE DEF result
    <2> QED BY <2>1, <2>2, <2>3, ZenonT(60) DEF MovingTurn, Moves
  <1>5. ASSUME NEW id \in Requests, Cancel(id) PROVE MovingTurn
    <2> DEFINE result == ApplyCancel(st, id)
    <2>1. result.next \in ProtocolState BY ApplyCancelType
    <2>2. Keeps(st, result.next) \/ Falls(st, result.next) \/ Drops(st, result.next)
      BY CancelMove
    <2>3. Turn(result, {}) BY <1>5 DEF Cancel
    <2> HIDE DEF result
    <2> QED BY <2>1, <2>2, <2>3, ZenonT(60) DEF MovingTurn, Moves
  <1>6. ASSUME NEW id \in Requests, NEW lease \in Leases, NEW peer \in PeerSessions,
               Renew(id, lease, peer)
        PROVE  MovingTurn
    <2> DEFINE result == ApplyRenew(st, id, lease, peer)
    <2>1. result.next \in ProtocolState BY ZenonT(60), ApplyRenewType
    <2>2. Keeps(st, result.next) \/ Renews(st, result.next) \/ Falls(st, result.next)
      BY RenewMove
    <2>3. Turn(result, {}) BY <1>6 DEF Renew
    <2> HIDE DEF result
    <2> QED BY <2>1, <2>2, <2>3, ZenonT(60) DEF MovingTurn, Moves
  <1>7. ASSUME NEW enabled \in BOOLEAN, MultiViewRequested(enabled) PROVE MovingTurn
    <2> DEFINE result == ApplyMultiViewRequested(st, enabled)
    <2>1. result.next \in ProtocolState BY ApplyMultiViewRequestedType
    <2>2. Keeps(st, result.next) \/ RequestsView(st, result.next)
      BY MultiViewRequestedMove
    <2>3. Turn(result, {}) BY <1>7 DEF MultiViewRequested
    <2> HIDE DEF result
    <2> QED BY <2>1, <2>2, <2>3, ZenonT(60) DEF MovingTurn, Moves
  <1> QED BY SMTT(40), <1>1, <1>2, <1>3, <1>4, <1>5, <1>6, <1>7 DEF ClientStep

================================================================================
