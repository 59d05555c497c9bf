------------------------------- MODULE ActorProofs -------------------------------
(***************************************************************************)
(* The theorems about the coordinator: every turn of the actor loop is a move  *)
(* (HandlerProofs), perhaps followed by the fallback of a full command queue,   *)
(* and moves keep the invariant and implement RequestLife (PhaseProofs).        *)
(***************************************************************************)
EXTENDS HandlerProofs, SafetyProofs, PhaseProofs

(* After the handler, a turn keeps everything but the effects, or a full queue *)
(* makes it fall back.                                                          *)
LEMMA TurnCases ==
    ASSUME NEW result, result.next \in ProtocolState, NEW answered, Turn(result, answered)
    PROVE  LET u == result.next
           IN  /\ st' \in ProtocolState /\ st'.effects = <<>>
               /\ Keeps(u, st') \/ (u.effects # <<>> /\ Falls(u, st'))
               /\ \A e \in pending' :
                    \/ e \in pending \/ e.type # "SetMultiView"
                    \/ \E i \in DOMAIN u.effects : e = u.effects[i]
  <1> DEFINE u == result.next
             b == Bare(u)
  <1>1. /\ b \in ProtocolState /\ b.effects = <<>> /\ Keeps(u, b) /\ NoViewCommand(b)
    BY BareFields
  <1>2. CASE Publish(u, answered)
    <2>1. st' = b BY <1>2 DEF Publish, Bare
    <2>2. \A e \in pending' : e \in pending \/ \E i \in DOMAIN u.effects : e = u.effects[i]
      BY <1>2 DEF Publish
    <2> HIDE DEF u, b
    <2> QED BY SMTT(40), <1>1, <2>1, <2>2 DEF u
  <1>3. CASE ~Publish(u, answered)
    <2>1. PICK i \in DOMAIN u.effects :
            Publish(ApplyCommandFailed(b, u.effects[i].switch_epoch).next, answered)
      BY SMTT(40), <1>3 DEF Turn, Bare
    <2> DEFINE v == ApplyCommandFailed(b, u.effects[i].switch_epoch).next
    <2>2. v \in ProtocolState /\ (Keeps(b, v) \/ Falls(b, v))
      BY SMTT(40), <1>1, ApplyCommandFailedType, FailedMove
    <2>3. Publish(v, answered) BY <2>1
    <2> HIDE DEF v
    <2>4. st' = Bare(v) BY SMTT(40), <2>3 DEF Publish, Bare
    <2>5. NoViewCommand(v) BY SMTT(40), <1>1, <2>2 DEF Keeps, Falls, Carries
    <2>6. \A e \in pending' : e \in pending \/ e.type # "SetMultiView"
      BY SMTT(40), <2>3, <2>5 DEF Publish, NoViewCommand
    <2>7. u.effects # <<>> BY <2>1
    <2>8. Bare(v) \in ProtocolState /\ Bare(v).effects = <<>> /\ Keeps(v, Bare(v))
      BY SMTT(40), <2>2, BareFields
    <2>9. Keeps(b, v) => Keeps(u, Bare(v)) BY SMTT(40), <1>1, <2>8, KeepsKeeps
    <2>10. Falls(b, v) => Falls(u, Bare(v)) BY SMTT(40), <2>2, BareFalls
    <2> HIDE DEF u, b
    <2> QED BY SMTT(40), <2>2, <2>4, <2>6, <2>7, <2>8, <2>9, <2>10 DEF u
  <1> QED BY <1>2, <1>3

(* The inductive invariant. *)
PhaseInvariant ==
    /\ Invariant /\ Steady(st)
    /\ running => st.effects = <<>>
    /\ \A e \in pending : ViewFits(st, e)

(* A turn of the actor keeps the invariant. *)
LEMMA TurnSteady ==
    ASSUME PhaseInvariant, MovingTurn
    PROVE  /\ Steady(st') /\ st'.effects = <<>>
           /\ \A e \in pending' : ViewFits(st', e)
  <1>1. PICK result, answered :
            result.next \in ProtocolState /\ Moves(st, result.next) /\ Turn(result, answered)
    BY DEF MovingTurn
  <1> DEFINE u == result.next
  <1>2. st \in ProtocolState /\ pending \subseteq Effect /\ Steady(st)
    BY DEF PhaseInvariant, Invariant, TypeOK
  <1>3. st.effects = <<>> BY SMTT(40), <1>1 DEF PhaseInvariant, Turn
  <1>4. NoViewCommand(st) BY SMTT(40), <1>3 DEF NoViewCommand
  <1>5. /\ Steady(u) /\ KeepsViews(st, u)
        /\ \A i \in DOMAIN u.effects : ViewFits(u, u.effects[i])
    BY SMTT(40), <1>1, <1>2, <1>4, MoveSteady
  <1>6. /\ st' \in ProtocolState /\ st'.effects = <<>>
        /\ Keeps(u, st') \/ (u.effects # <<>> /\ Falls(u, st'))
        /\ \A e \in pending' :
             \/ e \in pending \/ e.type # "SetMultiView"
             \/ \E i \in DOMAIN u.effects : e = u.effects[i]
    BY SMTT(40), <1>1, TurnCases
  <1>7. u \in ProtocolState BY SMTT(40), <1>1
  <1>8. \A i \in DOMAIN u.effects : u.effects[i] \in Effect
    BY SMTT(40), <1>7 DEF ProtocolState
  <1> HIDE DEF u
  <1>10. Steady(st') /\ KeepsViews(u, st')
    BY SMTT(40), <1>5, <1>6, <1>7, LocalMoveSteady, IdleMoveSteady
  <1>11. \A e \in Effect : e.type = "SetMultiView" => e.switch_epoch \in Nat
    BY EnvironmentTypes
  <1>12. ASSUME NEW e \in pending' PROVE ViewFits(st', e)
    <2>1. CASE e \in pending
      BY SMTT(40), <1>2, <1>5, <1>10, <1>11, <2>1 DEF PhaseInvariant, KeepsViews
    <2>2. CASE e.type # "SetMultiView" BY <2>2 DEF ViewFits
    <2>3. CASE \E i \in DOMAIN u.effects : e = u.effects[i]
      BY SMTT(40), <1>5, <1>8, <1>10, <1>11, <2>3 DEF KeepsViews
    <2> QED BY SMTT(40), <1>6, <2>1, <2>2, <2>3
  <1> QED BY SMTT(40), <1>6, <1>10, <1>12

(* The deadline timer makes a move. *)
LEMMA TickMoves ==
    ASSUME PhaseInvariant, Tick
    PROVE  MovingTurn
  <1> DEFINE result == ApplyTick(st)
  <1>0. st \in ProtocolState /\ Anchored(st) /\ Steady(st)
    BY DEF PhaseInvariant, Invariant, TypeOK
  <1>1. result.next \in ProtocolState BY SMTT(40), <1>0, ApplyTickAnchored
  <1>2. /\ st.phase = "RemoteOwned" => st.active_session # None
        /\ st.active_request # None =>
            (st.active_request.status = "Waking" => st.active_request.switch_epoch = None)
    BY <1>0 DEF Steady, Coherent, InHand
  <1>3. \/ Keeps(st, result.next) \/ Drops(st, result.next) \/ Falls(st, result.next)
        \/ Retries(st, result.next)
    BY SMTT(40), <1>0, <1>2, TickMove
  <1>4. Turn(result, {}) BY DEF Tick, Handle
  <1> HIDE DEF result
  <1> QED BY <1>1, <1>3, <1>4, ZenonT(60) DEF MovingTurn, Moves

(* The daemon starts steady. *)
LEMMA InitialSteady == Init => PhaseInvariant
  <1> SUFFICES ASSUME Init PROVE PhaseInvariant OBVIOUS
  <1>1. Invariant BY InitialInvariant
  <1>2. /\ st.active_request = None /\ st.active_session = None
        /\ st.keyboard_owner = Server /\ st.phase = "FallbackDeferred"
        /\ st.ws_state = "Disconnected" /\ st.pending_multiview = None
        /\ st.request_history = <<>> /\ st.effects = <<>>
    BY DEF Init, WithDisplayHosts
  <1>3. Coherent(st) BY <1>2 DEF Coherent, DaemonHealthy
  <1>4. InHand(st) /\ Awaited(st) BY <1>2 DEF InHand, Awaited
  <1>5. Tidy(st)
    <2>1. Len(<<>>) = 0 /\ DOMAIN <<>> = {} OBVIOUS
    <2>2. RetainedRequests \in Nat BY SMTT(40), ConfigAssumption
    <2> QED BY SMTT(40), <1>2, <2>1, <2>2 DEF Tidy
  <1> QED BY SMTT(40), <1>1, <1>2, <1>3, <1>4, <1>5 DEF PhaseInvariant, Steady, Init

(* Every step of the coordinator. *)
LEMMA StepCases ==
    ASSUME PhaseInvariant, [Next]_vars
    PROVE  \/ MovingTurn
           \/ /\ st' \in ProtocolState /\ (Keeps(st, st') \/ Closes(st, st'))
              /\ pending' = {} /\ ~running' /\ running
           \/ /\ running /\ st' \in ProtocolState /\ st' = Elapse(st) /\ Ages(st, st')
              /\ UNCHANGED <<pending, running>>
           \/ UNCHANGED vars
  <1>0. /\ st \in ProtocolState /\ Sound(st) /\ pending \subseteq Effect
        /\ \A e \in pending : ViewFits(st, e)
    BY DEF PhaseInvariant, Invariant, TypeOK
  <1>1. CASE TransportStep BY SMTT(40), <1>0, <1>1, TransportStepMoves
  <1>2. CASE TvAnswer BY SMTT(40), <1>0, <1>2, TvAnswerMoves
  <1>3. CASE ClientStep BY SMTT(40), <1>0, <1>3, GrantHasEpoch, ClientStepMoves
  <1>4. CASE Tick BY SMTT(40), <1>4, TickMoves
  <1>5. CASE Shutdown
    <2> DEFINE t == ApplyShutdown(st).next
    <2>1. t \in ProtocolState BY SMTT(40), <1>0, ApplyShutdownType
    <2>2. Keeps(st, t) \/ Closes(st, t) BY SMTT(40), <1>0, ShutdownMove
    <2>3. st' = t /\ pending' = {} /\ running' = FALSE /\ running BY SMTT(40), <1>5 DEF Shutdown
    <2> HIDE DEF t
    <2> QED BY ZenonT(60), <2>1, <2>2, <2>3
  <1>6. CASE Clock BY SMTT(40), <1>0, <1>6, ElapseType, ElapseAges DEF Clock
  <1> QED BY SMTT(40), <1>1, <1>2, <1>3, <1>4, <1>5, <1>6 DEF Next

(* The invariant of the moves is inductive: it holds in every behaviour of the *)
(* coordinator, whatever clients, peers and the TV do, in any order.           *)
THEOREM AlwaysSteady == Spec => []PhaseInvariant
  <1>1. ASSUME Invariant', PhaseInvariant, [Next]_vars PROVE PhaseInvariant'
    <2>0. st \in ProtocolState /\ pending \subseteq Effect /\ Steady(st)
      BY SMTT(40), <1>1 DEF PhaseInvariant, Invariant, TypeOK
    <2>1. CASE MovingTurn BY SMTT(40), <1>1, <2>1, TurnSteady DEF PhaseInvariant
    <2>2. CASE /\ st' \in ProtocolState /\ (Keeps(st, st') \/ Closes(st, st'))
               /\ pending' = {} /\ ~running' /\ running
      <3>1. Steady(st') BY SMTT(40), <2>0, <2>2, LocalMoveSteady, IdleMoveSteady
      <3> QED BY SMTT(40), <1>1, <2>2, <3>1 DEF PhaseInvariant
    <2>3. CASE /\ running /\ st' \in ProtocolState /\ st' = Elapse(st) /\ Ages(st, st')
               /\ UNCHANGED <<pending, running>>
      <3>1. Steady(st') /\ KeepsViews(st, st') BY SMTT(40), <2>0, <2>3, AgesSteady
      <3>2. \A e \in pending : e.type = "SetMultiView" => e.switch_epoch \in Nat
        BY SMTT(40), <2>0, EnvironmentTypes
      <3>3. \A e \in pending' : ViewFits(st', e)
        BY SMTT(40), <1>1, <2>3, <3>1, <3>2 DEF KeepsViews, PhaseInvariant
      <3>4. running' => st'.effects = <<>> BY SMTT(40), <1>1, <2>3 DEF PhaseInvariant, Ages
      <3> QED BY SMTT(40), <1>1, <3>1, <3>3, <3>4 DEF PhaseInvariant
    <2>4. CASE UNCHANGED vars
      BY SMTT(40), <1>1, <2>4 DEF vars, PhaseInvariant
    <2> QED BY SMTT(40), <1>1, <2>1, <2>2, <2>3, <2>4, StepCases
  <1> QED BY <1>1, InitialSteady, Correct, PTL DEF Spec

(* In every state, whatever the order of answers, cancellations, readiness  *)
(* losses and timeouts, the phase fits the request, the session and the      *)
(* fallback, and none of these outlives the connection to the TV.            *)
THEOREM PhaseIsCoherent == Spec => []PhaseCoherent
  <1>1. PhaseInvariant => PhaseCoherent BY SMTT(40) DEF PhaseInvariant, Steady, PhaseCoherent
  <1> QED BY <1>1, AlwaysSteady, PTL

(* A grant is always about the newest display command and is the newest     *)
(* grant: no later command or multiview change overtakes it.                 *)
THEOREM GrantIsNewest == Spec => []GrantIsForNewestCommand
  <1>1. PhaseInvariant => GrantIsForNewestCommand
    BY SMTT(40) DEF PhaseInvariant, Steady, InHand, GrantIsForNewestCommand, Request
  <1> QED BY <1>1, AlwaysSteady, PTL

(* The history keeps to retained_request_limit, with one entry per request id *)
(* and none for the active request.                                          *)
THEOREM HistoryIsDistinct == Spec => []HistoryDistinct
  <1>1. PhaseInvariant => HistoryDistinct
    BY SMTT(40) DEF PhaseInvariant, Steady, InHand, Tidy, HistoryDistinct, Request
  <1> QED BY <1>1, AlwaysSteady, PTL

(* Outside of Idle and FallbackDeferred some deadline is always set, so no lost *)
(* answer strands the daemon.                                                  *)
THEOREM NoPhaseIsAbandoned == Spec => []NoAbandonedPhase
  <1>1. PhaseInvariant => NoAbandonedPhase
    <2> SUFFICES ASSUME PhaseInvariant, st.phase \notin {"Idle", "FallbackDeferred"}
                 PROVE  Deadlines(st) # {}
      BY SMTT(40) DEF NoAbandonedPhase
    <2>1. Coherent(st) /\ Awaited(st) /\ st.phase \in Phases
      BY DEF PhaseInvariant, Steady, Invariant, TypeOK, ProtocolState
    <2>2. CASE st.active_request # None
      <3>1. st.active_request.deadline \in Deadlines(st) BY SMTT(40), <2>2 DEF Deadlines
      <3> QED BY SMTT(40), <3>1
    <2>3. CASE st.active_session # None
      <3>1. SessionDeadline(st.active_session) \in Deadlines(st) BY SMTT(40), <2>3 DEF Deadlines
      <3> QED BY SMTT(40), <3>1
    <2>4. CASE st.active_request = None /\ st.active_session = None
      <3>1. st.phase \in {"FallbackCommandPending", "FallbackVerifying", "MultiviewChanging"}
        BY SMTT(40), <2>1, <2>4 DEF Coherent, Phases
      <3>2. st.phase_deadline # None BY SMTT(40), <2>1, <3>1 DEF Awaited
      <3>3. st.phase_deadline \in Deadlines(st) BY SMTT(40), <3>2 DEF Deadlines
      <3> QED BY <3>3
    <2> QED BY SMTT(40), <2>2, <2>3, <2>4
  <1> QED BY <1>1, AlwaysSteady, PTL

(* validate() accepts a state the daemon has fallen back to. *)
LEMMA FallenAccepted ==
    ASSUME NEW s, NEW t, t.active_request = None, t.active_session = None,
           t.keyboard_owner = Server, t.pointer_owner = Server,
           t.manual_recovery_target # Server
    PROVE  Validated(s, t).err = "none"
  <1>1. Validate(t) BY DEF Validate
  <1> QED BY SMTT(40), <1>1 DEF Validated, Ok

(* validate() accepts a fallback from a sound state. *)
LEMMA FallbackAccepted ==
    ASSUME NEW s \in ProtocolState, NEW u \in ProtocolState,
           SameWork(s, u), SameDisplay(s, u), Carries(s, u),
           u.manual_recovery_target # Server
    PROVE  /\ Validated(s, BeginFallback(u)).err = "none"
           /\ Validated(s, BeginActiveSessionFailureFallback(u)).err = "none"
  <1>1. Leads(s, u) BY SMTT(40), SeesLeads
  <1>2. /\ Falls(s, BeginFallback(u)) /\ BeginFallback(u).manual_recovery_target # Server
        /\ Falls(s, BeginActiveSessionFailureFallback(u))
        /\ BeginActiveSessionFailureFallback(u).manual_recovery_target # Server
    BY SMTT(40), <1>1, BeginFallbackMove, SessionFailureMove
  <1>3. Validated(s, BeginFallback(u)).err = "none"
    BY ZenonT(60), <1>2, FallenAccepted DEF Falls, Fallen
  <1>4. Validated(s, BeginActiveSessionFailureFallback(u)).err = "none"
    BY SMTT(40), <1>2, FallenAccepted DEF Falls, Fallen
  <1> QED BY SMTT(40), <1>3, <1>4

(* An owner that goes offline loses the input: the event is accepted. *)
LEMMA OfflineOwnerAccepted ==
    ASSUME NEW s \in ProtocolState, s.keyboard_owner # Server,
           s.manual_recovery_target # Server
    PROVE  ApplyPeerReadinessUpdated(s, s.keyboard_owner,
                [online |-> FALSE, ready |-> FALSE, session_epoch |-> 0]).err = "none"
  <1> DEFINE host == s.keyboard_owner
             readiness == [online |-> FALSE, ready |-> FALSE, session_epoch |-> 0]
             told == [s EXCEPT !.peers[host] = readiness]
             request == s.active_request
             requestReady == BundleReady(readiness, request.lease.peer_session_epoch)
             forRequest ==
                IF request = None \/ request.target # host THEN told
                ELSE IF s.phase = "Waking" /\ requestReady THEN BeginSwitch(told)
                ELSE IF s.phase \in {"Switching", "Verifying", "GrantPending"} /\ ~requestReady
                THEN BeginFallback(told)
                ELSE told
             session == forRequest.active_session
             epoch == IF session = None THEN 0 ELSE session.lease.peer_session_epoch
             new == IF /\ forRequest.keyboard_owner = host /\ host # Server
                       /\ ~BundleReady(readiness, epoch)
                    THEN BeginActiveSessionFailureFallback(forRequest) ELSE forRequest
  <1>1. ApplyPeerReadinessUpdated(s, host, readiness) = Validated(s, new)
    BY ZenonT(60) DEF ApplyPeerReadinessUpdated
  <1>2. host \in Hosts /\ host # Server BY DEF ProtocolState
  <1>3. readiness \in PeerReadiness /\ \A e : ~BundleReady(readiness, e)
    BY DEF PeerReadiness, BundleReady
  <1> HIDE DEF readiness
  <1>4. told \in ProtocolState BY SMTT(40), <1>2, <1>3, PeersUpdate
  <1>5. /\ SameWork(s, told) /\ SameDisplay(s, told) /\ told.effects = s.effects
        /\ told.manual_recovery_target # Server
    BY DEF SameWork, SameDisplay, ProtocolState
  <1> HIDE DEF told
  <1>6. Carries(s, told) BY SMTT(40), <1>5 DEF Carries, Tidy, NoViewCommand, SameWork
  <1>7. forRequest \in {told, BeginFallback(told)} BY SMTT(40), <1>3
  <1>8. /\ Validated(s, BeginFallback(told)).err = "none"
        /\ Validated(s, BeginActiveSessionFailureFallback(told)).err = "none"
    BY SMTT(40), <1>4, <1>5, <1>6, FallbackAccepted
  <1>9. BeginFallback(told).keyboard_owner = Server
    BY SMTT(40), <1>4, <1>5, <1>6, SeesLeads, BeginFallbackMove DEF Falls, Fallen
  <1>10. told.keyboard_owner = host BY SMTT(40), <1>5 DEF SameWork
  <1> HIDE DEF forRequest, epoch
  <1>11. forRequest.keyboard_owner = host /\ ~BundleReady(readiness, epoch) =>
            new = BeginActiveSessionFailureFallback(forRequest)
    BY SMTT(40), <1>2
  <1>12. forRequest.keyboard_owner # host => new = forRequest OBVIOUS
  <1> HIDE DEF new, host
  <1>13. Validated(s, new).err = "none"
    BY SMTT(40), <1>2, <1>3, <1>7, <1>8, <1>9, <1>10, <1>11, <1>12
  <1> QED BY SMTT(40), <1>1, <1>13 DEF host, readiness

(* No state makes validate() reject the loss of the TV, a failed command, an    *)
(* owner that goes offline or a shutdown: what takes the input away from a       *)
(* remote host always does.                                                     *)
THEOREM SafetyIsAccepted == Spec => []SafetyAccepted
  <1>1. PhaseInvariant => SafetyAccepted
    <2> SUFFICES ASSUME PhaseInvariant PROVE SafetyAccepted OBVIOUS
    <2>0. st \in ProtocolState /\ st.manual_recovery_target # Server
      BY DEF PhaseInvariant, Invariant, TypeOK, Sound
    <2>1. ApplyTransportDisconnected(st).err = "none"
      <3> DEFINE u == [st EXCEPT !.ws_state = "Disconnected"]
      <3>1. "Disconnected" \in WsStates BY DEF WsStates
      <3>2. u \in ProtocolState /\ SameWork(st, u) /\ SameDisplay(st, u) /\ Carries(st, u)
        BY SMTT(40), <2>0, <3>1, WsStateFields
      <3>3. u.manual_recovery_target = st.manual_recovery_target BY SMTT(40), <2>0 DEF ProtocolState
      <3>4. ApplyTransportDisconnected(st) = Validated(st, BeginFallback(u))
        BY DEF ApplyTransportDisconnected
      <3> HIDE DEF u
      <3> QED BY SMTT(40), <2>0, <3>2, <3>3, <3>4, FallbackAccepted
    <2>2. ApplyCommandFailed(st, st.switch_epoch).err = "none"
      <3>1. SameWork(st, st) /\ SameDisplay(st, st) /\ Carries(st, st)
        BY DEF SameWork, SameDisplay, Carries
      <3>2. ApplyCommandFailed(st, st.switch_epoch) = Validated(st, BeginFallback(st))
        BY DEF ApplyCommandFailed
      <3> QED BY SMTT(40), <2>0, <3>1, <3>2, FallbackAccepted
    <2>3. ApplyShutdown(st).err = "none"
      <3> DEFINE free == ReleaseToServer(st)
                 closed == [free EXCEPT
                            !.ws_state = "Disconnected",
                            !.fallback_required = TRUE,
                            !.phase = "FallbackDeferred",
                            !.active_request = None,
                            !.pending_multiview = None,
                            !.phase_deadline = None]
      <3>1. free \in ProtocolState BY SMTT(40), <2>0, ReleaseToServerType
      <3>2. /\ free.active_session = None /\ free.keyboard_owner = Server
            /\ free.pointer_owner = Server
            /\ free.manual_recovery_target = st.manual_recovery_target
        BY SMTT(40), <2>0 DEF ReleaseToServer, ProtocolState
      <3>3. ApplyShutdown(st) = Validated(st, closed) BY ZenonT(60) DEF ApplyShutdown
      <3> HIDE DEF free
      <3>4. /\ closed.active_request = None /\ closed.active_session = None
            /\ closed.keyboard_owner = Server /\ closed.pointer_owner = Server
            /\ closed.manual_recovery_target # Server
        BY SMTT(40), <2>0, <3>1, <3>2 DEF ProtocolState
      <3> HIDE DEF closed
      <3> QED BY SMTT(40), <3>3, <3>4, FallenAccepted
    <2>4. Owner # Server =>
            ApplyPeerReadinessUpdated(st, Owner, [online |-> FALSE, ready |-> FALSE,
                                                  session_epoch |-> 0]).err = "none"
      BY SMTT(40), <2>0, OfflineOwnerAccepted DEF Owner
    <2> QED BY SMTT(40), <2>1, <2>2, <2>3, <2>4 DEF SafetyAccepted
  <1> QED BY <1>1, AlwaysSteady, PTL

(* A switch that ends without a session, for any other reason than a cancel,    *)
(* leads to a restored server display: also when the command queue is full.     *)
THEOREM FailedSwitchIsRestored == Spec => FailedSwitchRestores
  <1> DEFINE Restores ==
        /\ Switched /\ Request' = None /\ Session' = None
        /\ \A i \in Archived(st', Request.request_id) :
             st'.request_history[i].status # "Cancelled"
        => st'.fallback_required
  <1>1. ASSUME PhaseInvariant, [Next]_vars PROVE [Restores]_vars
    <2> SUFFICES ASSUME Switched, Request' = None, Session' = None,
                        \A i \in Archived(st', Request.request_id) :
                            st'.request_history[i].status # "Cancelled"
                 PROVE  st'.fallback_required
      OBVIOUS
    <2>0. /\ st \in ProtocolState /\ Steady(st) /\ MayShow(st)
      BY SMTT(40), <1>1 DEF PhaseInvariant, Invariant, TypeOK, Switched, MayShow, Request
    <2>1. /\ st'.active_request = None /\ st'.active_session = None
          /\ st.active_request # None
          /\ ~HasCancelled(st', st.active_request.request_id)
      BY DEF Request, Session, Archived, HasCancelled, Switched
    <2>2. CASE MovingTurn
      <3>1. PICK result, answered : /\ result.next \in ProtocolState
                                    /\ Moves(st, result.next) /\ Turn(result, answered)
        BY SMTT(40), <2>2 DEF MovingTurn
      <3> DEFINE u == result.next
      <3>2. st.effects = <<>> BY SMTT(40), <1>1, <3>1 DEF PhaseInvariant, Turn
      <3>3. Keeps(u, st') \/ (u.effects # <<>> /\ Falls(u, st')) BY SMTT(40), <3>1, TurnCases
      <3>4. \/ /\ u.active_request # None /\ MayShow(u)
               /\ u.active_request.request_id = st.active_request.request_id
            \/ /\ u.active_request = None
               /\ u.fallback_required \/ HasCancelled(u, st.active_request.request_id)
            \/ u.active_request = None /\ u.active_session # None /\ u.effects = st.effects
        BY SMTT(40), <2>0, <3>1, MoveRestores
      <3> HIDE DEF u
      <3>5. Keeps(u, st') =>
                (HasCancelled(u, st.active_request.request_id) =>
                    HasCancelled(st', st.active_request.request_id))
        BY SMTT(40) DEF Keeps, SameWork, HasCancelled
      <3>6. CASE Keeps(u, st')
        BY SMTT(40), <2>1, <3>4, <3>5, <3>6 DEF Keeps, SameWork, SameDisplay
      <3>7. CASE u.effects # <<>> /\ Falls(u, st')
        BY SMTT(40), <2>1, <3>2, <3>4, <3>7 DEF Falls
      <3> QED BY SMTT(40), <3>3, <3>6, <3>7
    <2>3. CASE Keeps(st, st') \/ Closes(st, st')
      BY SMTT(40), <2>1, <2>3 DEF Keeps, SameWork, Closes
    <2>4. CASE Ages(st, st')
      BY SMTT(40), <2>1, <2>4, NoneAssumption DEF Ages, Later
    <2>5. CASE UNCHANGED vars BY SMTT(40), <2>1, <2>5 DEF vars
    <2> QED BY SMTT(40), <1>1, <2>2, <2>3, <2>4, <2>5, StepCases
  <1>2. [][Restores]_vars <=> FailedSwitchRestores BY DEF FailedSwitchRestores
  <1> QED BY <1>1, <1>2, AlwaysSteady, PTL DEF Spec

(* The coordinator implements RequestLife, for any hosts, leases and durations:  *)
(* whatever the TV, the peers and late or repeated calls do, a request gets a     *)
(* fresh epoch, moves forward only, becomes a session only through a live grant   *)
(* and lease, and the input is with the session's host until the session ends.    *)
THEOREM RequestLifeIsImplemented == Spec => ImplementsRequestLife
  <1>1. Init => Life!Init
    <2> SUFFICES ASSUME Init PROVE Life!Init OBVIOUS
    <2>1. /\ st.active_request = None /\ st.active_session = None
          /\ st.keyboard_owner = Server /\ st.request_epoch = 0
      BY DEF Init, WithDisplayHosts
    <2>2. LifeRequest(st) = None /\ LifeSession(st) = None BY <2>1 DEF LifeRequest, LifeSession
    <2> QED BY <2>1, <2>2, MappingRead, ZenonT(60) DEF Life!Init
  <1>2. ASSUME PhaseInvariant, [Next]_vars PROVE [Life!Next]_(Life!life)
    <2>0. st \in ProtocolState /\ Steady(st)
      BY SMTT(40), <1>2 DEF PhaseInvariant, Invariant, TypeOK
    <2>1. CASE MovingTurn
      <3>1. PICK result, answered : /\ result.next \in ProtocolState
                                    /\ Moves(st, result.next) /\ Turn(result, answered)
        BY <2>1 DEF MovingTurn
      <3> DEFINE u == result.next
      <3>2. st' \in ProtocolState /\ (Keeps(u, st') \/ Falls(u, st')) BY <3>1, TurnCases
      <3>3. LifeMove(st, u) BY SMTT(40), <2>0, <3>1, MoveIsLife
      <3>4. u \in ProtocolState BY SMTT(40), <3>1
      <3> HIDE DEF u
      <3>5. LifeMove(st, st') BY SMTT(40), <2>0, <3>2, <3>3, <3>4, LifeMoveThen
      <3> QED BY SMTT(40), <2>0, <3>5, LifeMoveNext
    <2>2. CASE st' \in ProtocolState /\ (Keeps(st, st') \/ Closes(st, st'))
      <3>1. LifeMove(st, st') BY SMTT(40), <2>0, <2>2, EndsEnd DEF LifeMove, Keeps
      <3> QED BY <2>0, <3>1, LifeMoveNext
    <2>3. CASE st' \in ProtocolState /\ Ages(st, st')
      <3>1. Life!Elapse BY ZenonT(60), <2>0, <2>3, AgesElapses, MappingRead DEF Life!Elapse
      <3> QED BY SMTT(40), <3>1 DEF Life!Next
    <2>4. CASE UNCHANGED vars
      <3>1. st' = st BY <2>4 DEF vars
      <3> QED BY SMTT(40), <3>1, MappingRead DEF Life!life
    <2> QED BY SMTT(40), <1>2, <2>1, <2>2, <2>3, <2>4, StepCases
  <1> QED BY <1>1, <1>2, AlwaysSteady, PTL DEF Spec, ImplementsRequestLife, Life!Spec
================================================================================
