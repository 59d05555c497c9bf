------------------------------- MODULE Controller -------------------------------
(***************************************************************************)
(* The daemon around the transition function: the coordinator actor with    *)
(* its two event queues and two effect queues (coordinator.rs), the SSAP     *)
(* transport task that executes the effects one at a time (ssap/transport.rs),*)
(* a TV that obeys, fails, falls silent or is used by hand, and clients.      *)
(*                                                                           *)
(* The TV is external; it is modelled by what the transport relies on. Every  *)
(* message of the transport ends in notify_safety, which waits for room.      *)
(***************************************************************************)
EXTENDS DisplayProtocol

CONSTANTS
    PeerSession,        \* the session epoch of the remote peers
    ORDINARY, SAFETY,   \* command_capacity and safety_capacity
    MaxEpoch,           \* bound on the switch epoch
    Budgets             \* bounds of a behaviour, any of these records:
                        \*   epochs  the switch epoch, at most MaxEpoch
                        \*   calls   calls of clients
                        \*   views   the multiview changes they ask for, a set of BOOLEANs
                        \*   faults  failed commands, lost and silent connections
                        \*   delays  times that the clock or the actor overtakes an answer or
                        \*           an effect that is ready
                        \*   byHand  changes of the input by remote control

VARIABLES
    st, outstanding, running,   \* as in ProtocolSpec
    sq, oq,             \* safety and ordinary events
    fxs, fxo,           \* safety and ordinary effects
    task,               \* the transport task: where it is, its effect, and the mode it read
    tv,                 \* the TV: mode, input, and whether it is silent
    frames,             \* what the TV has sent and the transport has not read
    ping,               \* a keepalive is unanswered
    most,               \* the bounds of this behaviour
    calls, faults, delays, byHand

vars == <<st, outstanding, running, sq, oq, fxs, fxo, task, tv, frames, ping,
          most, calls, faults, delays, byHand>>

queues == <<sq, oq, fxs, fxo>>
budget == <<most, calls, faults, delays, byHand>>

Signals == [h \in DisplayHosts |-> TRUE]
Idling(pc) == [pc |-> pc, effect |-> None, mode |-> None]

Init ==
    /\ st = WithDisplayHosts /\ outstanding = {} /\ running = TRUE
    /\ sq = <<>> /\ oq = <<>> /\ fxs = <<>> /\ fxo = <<>>
    /\ task = Idling("start")
    /\ tv = [mode |-> "Fullscreen", input |-> Server, silent |-> FALSE]
    /\ frames = <<>> /\ ping = FALSE
    /\ most \in Budgets /\ calls = 0 /\ faults = 0 /\ delays = 0 /\ byHand = 0

Event(type) == [type |-> type]

-----------------------------------------------------------------------------
(* The coordinator actor. *)

Result(s, e) ==
    CASE e.type = "Tick" -> ApplyTick(s)
      [] e.type = "TransportConnecting" -> ApplyTransportConnecting(s)
      [] e.type = "TransportRegistering" -> ApplyTransportRegistering(s)
      [] e.type = "TransportSubscribed" -> ApplyTransportSubscribed(s)
      [] e.type = "TransportSynchronized" -> ApplyTransportSynchronized(s, "Fullscreen", e.input, Signals)
      [] e.type = "TransportDisconnected" -> ApplyTransportDisconnected(s)
      [] e.type = "CommandAcknowledged" -> ApplyCommandAcknowledged(s, e.effect.switch_epoch, e.effect.target)
      [] e.type = "CommandFailed" -> ApplyCommandFailed(s, e.effect.switch_epoch)
      [] e.type = "Observation" -> ApplyObservation(s, e.effect.switch_epoch, e.mode, e.input, Signals)
      [] e.type = "MultiViewAcknowledged" ->
            ApplyMultiViewAcknowledged(s, e.effect.switch_epoch, e.effect.enabled)
      [] e.type = "SubscriptionObserved" -> ApplySubscriptionObserved(s, e.mode, e.input)
      [] e.type = "PeerReadinessUpdated" -> ApplyPeerReadinessUpdated(s, e.host, e.readiness)
      [] e.type = "CreateEnter" -> ApplyCreateEnter(s, e.id, e.target, e.lease)
      [] e.type = "Commit" -> ApplyCommit(s, e.id, e.request_epoch, e.grant_epoch, e.lease)
      [] e.type = "Cancel" -> ApplyCancel(s, e.id)
      [] e.type = "Renew" -> ApplyRenew(s, e.id, e.lease, e.session)
      [] e.type = "MultiViewRequested" -> ApplyMultiViewRequested(s, e.enabled)

IsSafety(effect) == effect.type = "SetInput" /\ effect.fallback

(* dispatch_effects: the single effect of a transition goes to its queue. Without room, *)
(* a safety effect is left to the deadline and a wake is dropped; any other effect      *)
(* fails its command at once, which may issue a safety effect in turn.                  *)
Dispatched(s) ==
    LET effect == s.effects[1]
        failed == ApplyCommandFailed([s EXCEPT !.effects = <<>>], effect.switch_epoch).next
        full(t) == IF t.effects # <<>> /\ IsSafety(t.effects[1]) THEN Len(fxs) >= SAFETY
                   ELSE Len(fxo) >= ORDINARY
        lost == s.effects # <<>> /\ full(s)
    IN  IF lost /\ ~IsSafety(effect) /\ effect.type # "Wake"
        THEN [next |-> failed, sent |-> IF full(failed) THEN <<>> ELSE failed.effects]
        ELSE [next |-> s, sent |-> IF lost THEN <<>> ELSE s.effects]

Commands(s) == {e \in {s.effects[i] : i \in DOMAIN s.effects} : e.type # "Wake"}

(* One turn of the actor; answered is the effect that the event answers. *)
Turn(e, answered) ==
    \E r \in {Result(st, e).next} : \E d \in {Dispatched(r)} :
        /\ d.next.switch_epoch <= most.epochs
        /\ st' = [d.next EXCEPT !.effects = <<>>]
        /\ outstanding' = (outstanding \ answered) \cup Commands(d.next)
        /\ fxs' = fxs \o SelectSeq(d.sent, IsSafety)
        /\ fxo' = fxo \o SelectSeq(d.sent, LAMBDA f : ~IsSafety(f))

Answered(e) ==
    IF e.type \in {"CommandAcknowledged", "CommandFailed", "Observation", "MultiViewAcknowledged"}
    THEN {e.effect} ELSE {}

(* The transport is about to take an ordinary effect. The actor may overtake it, and give *)
(* it a safety effect to execute first, most.delays times.                               *)
EffectReady == task.pc = "loop" /\ fxs = <<>> /\ frames = <<>> /\ fxo # <<>>

(* A due deadline is served before both queues, the safety queue before the other. *)
ActorTick ==
    /\ running /\ DeadlineDue(st)
    /\ Turn(Event("Tick"), {})
    /\ UNCHANGED <<running, sq, oq, task, tv, frames, ping, budget>>

ActorSafety ==
    /\ running /\ ~DeadlineDue(st) /\ sq # <<>>
    /\ IF EffectReady THEN delays < most.delays /\ delays' = delays + 1 ELSE delays' = delays
    /\ Turn(Head(sq), Answered(Head(sq)))
    /\ sq' = Tail(sq)
    /\ UNCHANGED <<running, oq, task, tv, frames, ping, most, calls, faults, byHand>>

ActorOrdinary ==
    /\ running /\ ~DeadlineDue(st) /\ sq = <<>> /\ oq # <<>>
    /\ Turn(Head(oq), Answered(Head(oq)))
    /\ oq' = Tail(oq)
    /\ UNCHANGED <<running, sq, task, tv, frames, ping, budget>>

-----------------------------------------------------------------------------
(* The transport task. *)

(* Mutant of NotifySafety: the report goes the way of the clients, and is lost without room. *)
NotifyOrdinary(e) ==
    /\ oq' = IF Len(oq) < ORDINARY THEN Append(oq, e) ELSE oq
    /\ sq' = sq

NotifySafety(e) ==
    /\ Len(sq) < SAFETY
    /\ sq' = Append(sq, e)
    /\ oq' = oq

core == <<st, outstanding, running, fxs, fxo>>

Connecting ==
    /\ running /\ task.pc \in {"start", "backoff"}
    /\ NotifySafety(Event("TransportConnecting"))
    /\ task' = Idling("connect")
    /\ tv' = [tv EXCEPT !.silent = FALSE]
    /\ frames' = <<>> /\ ping' = FALSE
    /\ UNCHANGED <<core, budget>>

Registering ==
    /\ running /\ task.pc = "connect" /\ ~tv.silent
    /\ NotifySafety(Event("TransportRegistering"))
    /\ task' = Idling("register")
    /\ UNCHANGED <<core, tv, frames, ping, budget>>

Subscribed ==
    /\ running /\ task.pc = "register" /\ ~tv.silent
    /\ NotifySafety(Event("TransportSubscribed"))
    /\ task' = Idling("sync")
    /\ UNCHANGED <<core, tv, frames, ping, budget>>

(* set_multiview(false) and observe, before any effect is taken. *)
SyncAsked ==
    /\ running /\ task.pc = "sync" /\ ~tv.silent
    /\ tv' = [tv EXCEPT !.mode = "Fullscreen"]
    /\ frames' = Append(frames, [type |-> "reply", input |-> tv.input])
    /\ task' = Idling("syncing")
    /\ UNCHANGED <<core, sq, oq, ping, budget>>

Synchronized ==
    /\ running /\ task.pc = "syncing" /\ frames # <<>> /\ Head(frames).type = "reply"
    /\ NotifySafety([type |-> "TransportSynchronized", input |-> Head(frames).input])
    /\ frames' = Tail(frames)
    /\ task' = Idling("loop")
    /\ UNCHANGED <<core, tv, ping, budget>>

(* Mutant of Begin: the mode is left unread. *)
BeginUnread(effect) == task' = [pc |-> "exec", effect |-> effect, mode |-> "Unknown"]

(* The effect is taken, and for an observation the mode is read from the snapshot. *)
Begin(effect) ==
    task' = [pc |-> "exec", effect |-> effect,
             mode |-> IF st.pending_multiview = None THEN st.tv_mode
                      ELSE IF st.pending_multiview THEN "Multiview" ELSE "Fullscreen"]

(* The select of the session loop: safety effects, then messages, then other effects. *)
TakeSafetyEffect ==
    /\ running /\ task.pc = "loop" /\ fxs # <<>>
    /\ Begin(Head(fxs)) /\ fxs' = Tail(fxs) /\ ping' = FALSE
    /\ UNCHANGED <<st, outstanding, running, sq, oq, fxo, tv, frames, budget>>

TakeOrdinaryEffect ==
    /\ running /\ task.pc = "loop" /\ fxs = <<>> /\ frames = <<>> /\ fxo # <<>>
    /\ IF Head(fxo).type = "Wake" THEN UNCHANGED task ELSE Begin(Head(fxo))
    /\ fxo' = Tail(fxo) /\ ping' = FALSE
    /\ UNCHANGED <<st, outstanding, running, sq, oq, fxs, tv, frames, budget>>


(* A report of the foreground input, read in the loop or while an answer is awaited. *)
Unsolicited ==
    /\ running /\ task.pc \in {"loop", "sent", "syncing"} /\ frames # <<>>
    /\ Head(frames).type = "report"
    /\ task.pc = "loop" => fxs = <<>>
    /\ NotifySafety([type |-> "SubscriptionObserved", mode |-> st.tv_mode, input |-> Head(frames).input])
    /\ frames' = Tail(frames)
    /\ ping' = IF task.pc = "loop" THEN FALSE ELSE ping
    /\ UNCHANGED <<core, task, tv, budget>>

(* The TV executes the command; a change of its input is reported before or after the   *)
(* answer.                                                                             *)
TvObeys ==
    /\ running /\ task.pc = "exec" /\ ~tv.silent
    /\ task' = [task EXCEPT !.pc = "sent"]
    /\ LET f == task.effect
           input == IF f.type = "SetInput" THEN f.target ELSE tv.input
           reply == [type |-> "reply", input |-> input]
           report == [type |-> "report", input |-> input]
       IN  /\ tv' = [tv EXCEPT !.input = input,
                               !.mode = IF f.type # "SetMultiView" THEN @
                                        ELSE IF f.enabled THEN "Multiview" ELSE "Fullscreen"]
           /\ frames' \in IF input = tv.input THEN {Append(frames, reply)}
                          ELSE {frames \o <<report, reply>>, frames \o <<reply, report>>}
    /\ UNCHANGED <<core, sq, oq, ping, budget>>

(* It answers with an error, and has not done what was asked. *)
TvFails ==
    /\ running /\ task.pc = "exec" /\ ~tv.silent /\ faults < most.faults
    /\ faults' = faults + 1
    /\ task' = [task EXCEPT !.pc = "sent"]
    /\ frames' = Append(frames, [type |-> "error"])
    /\ UNCHANGED <<core, sq, oq, tv, ping, most, calls, delays, byHand>>

Answer(f, frame) ==
    IF frame.type = "error" THEN [type |-> "CommandFailed", effect |-> f]
    ELSE CASE f.type = "SetInput" -> [type |-> "CommandAcknowledged", effect |-> f]
           [] f.type = "Observe" -> [type |-> "Observation", effect |-> f, mode |-> task.mode,
                                     input |-> frame.input]
           [] f.type = "SetMultiView" -> [type |-> "MultiViewAcknowledged", effect |-> f]

ExecuteEffect ==
    /\ running /\ task.pc = "sent" /\ frames # <<>> /\ Head(frames).type \in {"reply", "error"}
    /\ NotifySafety(Answer(task.effect, Head(frames)))
    /\ frames' = Tail(frames) /\ ping' = FALSE
    /\ task' = Idling("loop")
    /\ UNCHANGED <<core, tv, budget>>

-----------------------------------------------------------------------------
(* The connection. *)

Up == task.pc \notin {"start", "backoff"}

(* Mutant of SessionEnds: the task reports the error and carries on. *)
SessionCarriesOn ==
    /\ NotifySafety(Event("TransportDisconnected"))
    /\ task' = Idling("loop")
    /\ UNCHANGED <<core, tv, frames, ping>>

(* The error is reported, the effect being executed is forgotten, the others stay. *)
SessionEnds ==
    /\ NotifySafety(Event("TransportDisconnected"))
    /\ task' = Idling("backoff")
    /\ frames' = <<>> /\ ping' = FALSE
    /\ UNCHANGED <<core, tv>>

ConnectionLost ==
    /\ running /\ Up /\ faults < most.faults
    /\ faults' = faults + 1
    /\ SessionEnds
    /\ UNCHANGED <<most, calls, delays, byHand>>

GoesSilent ==
    /\ running /\ Up /\ ~tv.silent /\ faults < most.faults
    /\ faults' = faults + 1
    /\ tv' = [tv EXCEPT !.silent = TRUE]
    /\ frames' = <<>>
    /\ UNCHANGED <<core, sq, oq, task, ping, most, calls, delays, byHand>>

(* command_ms or observation_ms passes without an answer. *)
RequestTimeout ==
    /\ running /\ task.pc \in {"connect", "register", "sync", "syncing", "exec", "sent"}
    /\ tv.silent /\ frames = <<>>
    /\ SessionEnds
    /\ UNCHANGED budget

(* The keepalive interval: a ping, or the end of the session when it is unanswered. *)
Keepalive ==
    /\ running /\ task.pc = "loop" /\ fxs = <<>> /\ frames = <<>> /\ fxo = <<>>
    /\ IF ping THEN tv.silent /\ SessionEnds
       ELSE ping' = TRUE /\ UNCHANGED <<core, sq, oq, task, tv, frames>>
    /\ UNCHANGED budget

Pong ==
    /\ running /\ task.pc = "loop" /\ ping /\ ~tv.silent
    /\ ping' = FALSE
    /\ UNCHANGED <<core, sq, oq, task, tv, frames, budget>>

(* Somebody changes the input with the remote control. *)
ByHand(input) ==
    /\ running /\ byHand < most.byHand /\ tv.input # input
    /\ byHand' = byHand + 1
    /\ tv' = [tv EXCEPT !.input = input]
    /\ frames' = IF task.pc \in {"sync", "syncing", "loop", "exec", "sent"} /\ ~tv.silent
                 THEN Append(frames, [type |-> "report", input |-> input]) ELSE frames
    /\ UNCHANGED <<core, sq, oq, task, ping, most, calls, faults, delays>>

-----------------------------------------------------------------------------
(* Clients. *)

Called ==
    /\ running /\ calls < most.calls
    /\ calls' = calls + 1
    /\ UNCHANGED <<core, task, tv, frames, ping, most, faults, delays, byHand>>

CallOrdinary(e) == Len(oq) < ORDINARY /\ oq' = Append(oq, e) /\ UNCHANGED sq
CallSafety(e) == Len(sq) < SAFETY /\ sq' = Append(sq, e) /\ UNCHANGED oq

CreateEnter(id, target, lease) ==
    /\ Called
    /\ CallOrdinary([type |-> "CreateEnter", id |-> id, target |-> target,
                     lease |-> [id |-> lease, peer_session_epoch |-> PeerSession, expires |-> LEASE_MS]])

(* The client commits the grant that it has polled. *)
Commit ==
    /\ Called
    /\ st.active_request # None /\ st.active_request.status = "Grant"
    /\ LET r == st.active_request IN
       CallOrdinary([type |-> "Commit", id |-> r.request_id, request_epoch |-> r.request_epoch,
                     grant_epoch |-> r.grant.grant_epoch, lease |-> r.lease.id])

Cancel(id) == Called /\ CallSafety([type |-> "Cancel", id |-> id])

Renew(id, lease) ==
    Called /\ CallSafety([type |-> "Renew", id |-> id, lease |-> lease, session |-> PeerSession])

UpdatePeerReadiness(host, online) ==
    /\ Called
    /\ CallSafety([type |-> "PeerReadinessUpdated", host |-> host,
                   readiness |-> [online |-> online, ready |-> online,
                                  session_epoch |-> IF online THEN PeerSession ELSE 0]])

RequestMultiView(enabled) == Called /\ CallSafety([type |-> "MultiViewRequested", enabled |-> enabled])

(* Nothing is left to do before some time passes. *)
Quiet ==
    /\ sq = <<>> /\ oq = <<>> /\ frames = <<>> /\ ~DeadlineDue(st)
    /\ task.pc = "loop" => fxs = <<>> /\ fxo = <<>>
    /\ task.pc \in {"loop", "backoff"}

(* The leases of queued events age with the state. *)
Aged(e) == IF e.type = "CreateEnter" THEN [e EXCEPT !.lease = LowerExpiry(@)] ELSE e

Clock ==
    /\ running /\ ~DeadlineDue(st) /\ Elapse(st) # st
    /\ Quiet \/ delays < most.delays
    /\ st' = Elapse(st)
    /\ oq' = [i \in DOMAIN oq |-> Aged(oq[i])]
    /\ delays' = IF Quiet THEN delays ELSE delays + 1
    /\ UNCHANGED <<outstanding, running, sq, fxs, fxo, task, tv, frames, ping, most, calls, faults, byHand>>

Next ==
    \/ ActorTick \/ ActorSafety \/ ActorOrdinary
    \/ Connecting \/ Registering \/ Subscribed \/ SyncAsked \/ Synchronized
    \/ TakeSafetyEffect \/ TakeOrdinaryEffect \/ Unsolicited
    \/ TvObeys \/ TvFails \/ ExecuteEffect
    \/ ConnectionLost \/ GoesSilent \/ RequestTimeout \/ Keepalive \/ Pong
    \/ \E input \in DisplayHosts : ByHand(input)
    \/ \E id \in Requests, target \in Hosts, lease \in Leases : CreateEnter(id, target, lease)
    \/ Commit
    \/ \E id \in Requests : Cancel(id)
    \/ \E id \in Requests, lease \in Leases : Renew(id, lease)
    \/ \E host \in Hosts \ {Server}, online \in BOOLEAN : UpdatePeerReadiness(host, online)
    \/ \E enabled \in most.views : RequestMultiView(enabled)
    \/ Clock

Spec == Init /\ [][Next]_vars

Actor == ActorTick \/ ActorSafety \/ ActorOrdinary

Session ==
    \/ Connecting \/ Registering \/ Subscribed \/ SyncAsked \/ Synchronized
    \/ TakeSafetyEffect \/ TakeOrdinaryEffect \/ Unsolicited
    \/ TvObeys \/ ExecuteEffect \/ RequestTimeout \/ Pong

(* The scheduler runs the actor and the transport, the TV answers unless it is silent,  *)
(* and time passes. Each task does one thing at a time, in the order of its select.     *)
Fairness == WF_vars(Actor) /\ WF_vars(Session) /\ WF_vars(Keepalive) /\ WF_vars(Clock)

FairSpec == Spec /\ Fairness

-----------------------------------------------------------------------------
(* Properties. *)

Abstract == INSTANCE ProtocolSpec WITH
    pending <- outstanding, PeerSessions <- {PeerSession},
    Modes <- {"Unknown", "Fullscreen", "Multiview"}, Signals <- {Signals},
    MaxSwitchEpoch <- MaxEpoch + 1, MaxRequestEpoch <- MaxEpoch + 1

(* With its queues, its transport task and a TV behind it, the daemon does nothing but  *)
(* what ProtocolSpec lets it do: the lifecycle is reported in order, answers are about   *)
(* commands that were given, and a full effect queue is a failed command                *)
(* (coordinator.rs, run and dispatch_effects; transport.rs, run_connected_session).     *)
ImplementsProtocol == Abstract!Init /\ [][UNCHANGED Abstract!vars \/ Abstract!Next]_Abstract!vars

(* A required fallback ends: whatever was lost, full, late or failed, the server's       *)
(* display is verified or a selection by hand accepted (begin_fallback; tick retries).  *)
FallbackEnds == st.fallback_required ~> ~st.fallback_required

(* A TV that falls silent is noticed, although neither an answer nor an error ever comes: *)
(* the coordinator learns that the connection is gone, which takes the input back         *)
(* (keepalive_ms in run_connected_session; the timeouts of request_payload).             *)
SilenceNoticed == (tv.silent /\ DaemonHealthy(st)) ~> ~DaemonHealthy(st)

(* Display commands are accounted for: where nobody asks for multiview, which the daemon  *)
(* does not leave by itself, every one is due to a call, a fault, a delay or a change by  *)
(* hand. While the TV obeys, no command is retried without end (issue_fallback_command;   *)
(* Tick of FallbackVerifying).                                                            *)
CommandsAccounted ==
    most.views = {} => st.switch_epoch <= 2 * (1 + calls + faults + delays + byHand)

(* At rest, connected and with no command outstanding, the daemon knows the input that   *)
(* the TV shows.                                                                         *)
AtRest == task.pc = "loop" /\ Quiet /\ DaemonHealthy(st) /\ ~tv.silent
ObservationsCurrent == AtRest => st.observed_input = tv.input

(* ... and its mode. *)
ModeCurrent == AtRest /\ st.phase = "Idle" => st.tv_mode = tv.mode
================================================================================
