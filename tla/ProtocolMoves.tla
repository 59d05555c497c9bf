----------------------------- MODULE ProtocolMoves -----------------------------
(***************************************************************************)
(* The moves the handlers of protocol.rs make on the fields that decide how a *)
(* request, a session and a fallback go on, from the state s to the state t.  *)
(* HandlerProofs shows that every handler makes one of them; the invariants   *)
(* and the refinement are proved over the moves.                              *)
(***************************************************************************)
EXTENDS ProtocolSpec

(* The history keeps to its limit, with one entry per request id. *)
Tidy(s) ==
    LET history == s.request_history
    IN  /\ Len(history) <= RetainedRequests
        /\ \A i, j \in DOMAIN history :
            history[i].request_id = history[j].request_id => i = j

(* No effect of s asks for a multiview change. *)
NoViewCommand(s) == \A i \in DOMAIN s.effects : s.effects[i].type # "SetMultiView"

Carries(s, t) == (Tidy(s) => Tidy(t)) /\ (NoViewCommand(s) => NoViewCommand(t))

(* Request, session, input owners and history stay, and so do the epochs of requests *)
(* and grants.                                                                       *)
SameWork(s, t) ==
    /\ t.active_request = s.active_request /\ t.active_session = s.active_session
    /\ t.keyboard_owner = s.keyboard_owner /\ t.pointer_owner = s.pointer_owner
    /\ t.request_epoch = s.request_epoch /\ t.grant_epoch = s.grant_epoch
    /\ t.request_history = s.request_history

(* What the display has been told, has shown, and is waiting for stays. *)
SameDisplay(s, t) ==
    /\ t.switch_epoch = s.switch_epoch /\ t.verified_epoch = s.verified_epoch
    /\ t.fallback_required = s.fallback_required
    /\ t.pending_multiview = s.pending_multiview

(* Nothing of this changes. *)
Sees(s, t) ==
    /\ SameWork(s, t) /\ SameDisplay(s, t) /\ Carries(s, t)
    /\ t.ws_state = s.ws_state /\ t.phase = s.phase /\ t.phase_deadline = s.phase_deadline

(* Observations, peers and deadlines may change. *)
Keeps(s, t) ==
    /\ SameWork(s, t) /\ SameDisplay(s, t) /\ Carries(s, t)
    /\ t.ws_state = s.ws_state /\ t.phase = s.phase
    /\ t.phase_deadline = None => (s.phase_deadline = None \/ s.phase = "RemoteOwned")

(* The transport gets closer to a connection. *)
Connects(s, t) ==
    /\ SameWork(s, t) /\ SameDisplay(s, t) /\ Carries(s, t)
    /\ ~DaemonHealthy(s) /\ ~DaemonHealthy(t) /\ t.phase = s.phase
    /\ t.phase_deadline = s.phase_deadline

(* The newest display command is acknowledged, its effect is looked at. *)
Acknowledges(s, t) ==
    /\ SameWork(s, t) /\ SameDisplay(s, t) /\ Carries(s, t)
    /\ t.ws_state = s.ws_state
    /\ s.phase \in {"Switching", "FallbackCommandPending"}
    /\ t.phase = IF s.fallback_required THEN "FallbackVerifying" ELSE "Verifying"
    /\ t.phase_deadline # None

(* A multiview command is acknowledged. *)
ChangesView(s, t) ==
    /\ SameWork(s, t) /\ SameDisplay(s, t) /\ Carries(s, t)
    /\ t.ws_state = s.ws_state
    /\ s.pending_multiview # None
    /\ t.phase = "MultiviewChanging" /\ t.phase_deadline # None

(* The fallback display is not there yet. *)
Waits(s, t) ==
    /\ SameWork(s, t) /\ SameDisplay(s, t) /\ Carries(s, t)
    /\ t.ws_state = s.ws_state /\ DaemonHealthy(s) /\ s.fallback_required
    /\ t.phase = "FallbackVerifying" /\ t.phase_deadline = s.phase_deadline

(* A multiview command is sent. *)
RequestsView(s, t) ==
    /\ SameWork(s, t) /\ (Tidy(s) => Tidy(t))
    /\ t.ws_state = s.ws_state /\ DaemonHealthy(s)
    /\ s.active_request = None /\ s.keyboard_owner = Server /\ ~s.fallback_required
    /\ t.switch_epoch = s.switch_epoch + 1 /\ t.verified_epoch = s.verified_epoch
    /\ t.fallback_required = s.fallback_required
    /\ t.phase = "MultiviewChanging" /\ t.phase_deadline # None
    /\ NoViewCommand(s) =>
        \A i \in DOMAIN t.effects : t.effects[i].type = "SetMultiView" =>
            t.effects[i].switch_epoch = t.switch_epoch

(* The multiview the clients asked for is there. *)
CompletesView(s, t) ==
    /\ SameWork(s, t) /\ Carries(s, t)
    /\ t.ws_state = s.ws_state
    /\ s.active_request = None /\ s.phase = "MultiviewChanging"
    /\ t.switch_epoch = s.switch_epoch /\ t.verified_epoch = s.verified_epoch
    /\ t.fallback_required = s.fallback_required /\ t.pending_multiview = None
    /\ t.phase = "Idle"

(* The server's display is asked for once more. *)
Retries(s, t) ==
    /\ SameWork(s, t) /\ Carries(s, t)
    /\ t.ws_state = s.ws_state
    /\ \/ s.phase \in {"FallbackCommandPending", "FallbackVerifying"}
       \/ s.phase = "FallbackDeferred" /\ DaemonHealthy(s)
    /\ t.switch_epoch = s.switch_epoch + 1 /\ t.verified_epoch = s.verified_epoch
    /\ t.fallback_required = s.fallback_required
    /\ t.pending_multiview = s.pending_multiview
    /\ t.phase = "FallbackCommandPending" /\ t.phase_deadline # None

(* A state begin_fallback leads to: nobody else has the input or asks for it. *)
Fallen(t) ==
    /\ t.active_request = None /\ t.active_session = None
    /\ t.keyboard_owner = Server /\ t.pointer_owner = Server
    /\ t.pending_multiview = None
    /\ t.phase = IF t.fallback_required
                 THEN IF DaemonHealthy(t) THEN "FallbackCommandPending" ELSE "FallbackDeferred"
                 ELSE IF DaemonHealthy(t) THEN "Idle" ELSE "FallbackDeferred"
    /\ t.phase_deadline = IF t.phase = "FallbackCommandPending" THEN COMMAND_MS ELSE None

(* The TV may show the target of the request. *)
MayShow(s) ==
    /\ s.active_request # None /\ s.active_request.switch_epoch # None
    /\ RoutedRemote(s.active_request.target)

HasCancelled(s, id) ==
    \E i \in DOMAIN s.request_history :
        s.request_history[i].request_id = id /\ s.request_history[i].status = "Cancelled"

(* Request and session end in a fallback. *)
Falls(s, t) ==
    /\ Fallen(t) /\ Carries(s, t)
    /\ t.request_epoch = s.request_epoch /\ t.switch_epoch >= s.switch_epoch
    /\ s.fallback_required => t.fallback_required
    /\ MayShow(s) =>
        t.fallback_required \/ HasCancelled(t, s.active_request.request_id)
    /\ s.active_request = None => \A id : HasCancelled(s, id) => HasCancelled(t, id)

(* The server's display is there. *)
Finishes(s, t) ==
    /\ Carries(s, t)
    /\ s.fallback_required \/ ~DaemonHealthy(s)
    /\ DaemonHealthy(t) \/ t.ws_state = s.ws_state
    /\ t.active_request = s.active_request /\ t.active_session = None
    /\ t.keyboard_owner = Server /\ t.pointer_owner = Server
    /\ t.request_epoch = s.request_epoch /\ t.request_history = s.request_history
    /\ t.switch_epoch = s.switch_epoch /\ ~t.fallback_required
    /\ t.pending_multiview = s.pending_multiview
    /\ t.phase = "Idle"

(* Whoever sits at the TV has chosen another input. *)
Accepts(s, t) ==
    /\ SameWork(s, t) /\ Carries(s, t)
    /\ s.active_request = None /\ s.active_session = None /\ s.keyboard_owner = Server
    /\ t.switch_epoch = s.switch_epoch /\ ~t.fallback_required
    /\ t.pending_multiview = None
    /\ t.phase = "Idle"

Sooner(x, y) == IF x < y THEN x ELSE y

(* The request of t is the request of s, further on. *)
SameRequest(s, t) ==
    /\ s.active_request # None /\ t.active_request \in EnterRequest
    /\ t.active_request.request_id = s.active_request.request_id
    /\ t.active_request.target = s.active_request.target
    /\ t.active_request.request_epoch = s.active_request.request_epoch
    /\ t.active_request.lease = s.active_request.lease

(* The request has got the grant after s. *)
Granted(s, t) ==
    /\ t.active_request.status = "Grant"
    /\ t.active_request.grant =
        [grant_epoch |-> s.grant_epoch + 1, switch_epoch |-> t.active_request.switch_epoch,
         expires |-> Sooner(GRANT_MS, t.active_request.lease.expires)]
    /\ t.grant_epoch = s.grant_epoch + 1
    /\ t.verified_epoch = t.active_request.switch_epoch
    /\ t.phase = "GrantPending"

(* issue_grant, of a verified display. *)
Grants(s, t) ==
    /\ SameRequest(s, t) /\ Granted(s, t) /\ Carries(s, t)
    /\ s.phase = "Verifying" /\ t.ws_state = s.ws_state
    /\ t.active_request.switch_epoch = s.active_request.switch_epoch
    /\ t.active_session = s.active_session
    /\ t.keyboard_owner = s.keyboard_owner /\ t.pointer_owner = s.pointer_owner
    /\ t.request_epoch = s.request_epoch /\ t.request_history = s.request_history
    /\ t.switch_epoch = s.switch_epoch /\ t.fallback_required = s.fallback_required
    /\ t.pending_multiview = s.pending_multiview

(* begin_switch. *)
Commands(s, t) ==
    /\ SameRequest(s, t) /\ Carries(s, t)
    /\ t.ws_state = s.ws_state
    /\ t.switch_epoch = s.switch_epoch + 1
    /\ t.active_request.switch_epoch = t.switch_epoch
    /\ \/ Granted(s, t)
       \/ /\ t.active_request.status = "Switching" /\ t.phase = "Switching"
          /\ t.active_request.grant = s.active_request.grant
          /\ t.grant_epoch = s.grant_epoch /\ t.verified_epoch = s.verified_epoch
    /\ t.active_session = s.active_session
    /\ t.keyboard_owner = s.keyboard_owner /\ t.pointer_owner = s.pointer_owner
    /\ t.request_epoch = s.request_epoch /\ t.request_history = s.request_history
    /\ t.fallback_required = s.fallback_required
    /\ t.pending_multiview = s.pending_multiview

(* The target of the request has been woken, and is switched to. *)
Switches(s, t) == s.phase = "Waking" /\ Commands(s, t)

(* A client asks for an input: the target is woken or switched to. *)
Starts(s, t, id, target, lease) ==
    /\ s.active_request = None /\ DaemonHealthy(s) /\ ~s.fallback_required
    /\ Archived(s, id) = {} /\ lease.expires # 0
    /\ Carries(s, t)
    /\ t.ws_state = s.ws_state
    /\ t.request_epoch = s.request_epoch + 1
    /\ t.active_request \in EnterRequest
    /\ t.active_request.request_id = id /\ t.active_request.target = target
    /\ t.active_request.request_epoch = t.request_epoch /\ t.active_request.lease = lease
    /\ \/ /\ t.active_request.status = "Waking" /\ t.phase = "Waking"
          /\ t.active_request.switch_epoch = None /\ t.active_request.grant = None
          /\ t.switch_epoch = s.switch_epoch
          /\ t.grant_epoch = s.grant_epoch /\ t.verified_epoch = s.verified_epoch
       \/ /\ t.switch_epoch = s.switch_epoch + 1
          /\ t.active_request.switch_epoch = t.switch_epoch
          /\ \/ Granted(s, t)
             \/ /\ t.active_request.status = "Switching" /\ t.phase = "Switching"
                /\ t.active_request.grant = None
                /\ t.grant_epoch = s.grant_epoch /\ t.verified_epoch = s.verified_epoch
    /\ \/ /\ t.active_session = None
          /\ t.keyboard_owner = Server /\ t.pointer_owner = Server
       \/ /\ t.active_session = s.active_session
          /\ t.keyboard_owner = s.keyboard_owner /\ t.pointer_owner = s.pointer_owner
    /\ t.request_history = s.request_history
    /\ t.fallback_required = s.fallback_required
    /\ t.pending_multiview = s.pending_multiview

(* A client asks for an input whose bundle is not ready. *)
Denies(s, t) ==
    /\ s.active_request = None /\ t.active_request = None
    /\ SameDisplay(s, t) /\ Carries(s, t)
    /\ t.ws_state = s.ws_state /\ t.phase = s.phase /\ t.phase_deadline = s.phase_deadline
    /\ t.active_session = s.active_session
    /\ t.keyboard_owner = s.keyboard_owner /\ t.pointer_owner = s.pointer_owner
    /\ t.request_epoch = s.request_epoch + 1

(* A client takes the input it was granted. *)
Commits(s, t) ==
    LET request == s.active_request
    IN  /\ request # None /\ request.status = "Grant" /\ request.grant # None
        /\ request.grant.expires # 0 /\ request.lease.expires # 0
        /\ Carries(s, t)
        /\ t.ws_state = s.ws_state
        /\ t.active_request = None
        /\ t.keyboard_owner = request.target /\ t.pointer_owner = request.target
        /\ t.active_session =
            IF request.target = Server THEN None
            ELSE [request_id |-> request.request_id, target |-> request.target,
                  request_epoch |-> request.request_epoch,
                  switch_epoch |-> request.switch_epoch,
                  lease |-> [request.lease EXCEPT !.expires = LEASE_MS],
                  renewed_until |-> LEASE_MS]
        /\ request.target # Server => t.active_session \in ActiveSession
        /\ t.phase = IF request.target = Server THEN "Idle" ELSE "RemoteOwned"
        /\ t.request_epoch = s.request_epoch /\ t.switch_epoch = s.switch_epoch
        /\ ~t.fallback_required /\ t.effects = s.effects

(* A request that has not touched the display ends. *)
Drops(s, t) ==
    /\ s.active_request # None /\ t.active_request = None
    /\ s.active_request.switch_epoch = None \/ s.active_request.status = "Waking"
    /\ SameDisplay(s, t) /\ Carries(s, t)
    /\ t.ws_state = s.ws_state /\ t.phase = "Idle" /\ t.phase_deadline = None
    /\ t.active_session = s.active_session
    /\ t.keyboard_owner = s.keyboard_owner /\ t.pointer_owner = s.pointer_owner
    /\ t.request_epoch = s.request_epoch

(* The session's lease is renewed. *)
Renews(s, t) ==
    /\ s.active_session # None /\ t.active_session \in ActiveSession
    /\ t.active_session = [s.active_session EXCEPT !.renewed_until = LEASE_MS,
                                                   !.lease.expires = LEASE_MS]
    /\ SameDisplay(s, t) /\ Carries(s, t)
    /\ t.ws_state = s.ws_state /\ t.phase = s.phase /\ t.phase_deadline = s.phase_deadline
    /\ t.active_request = s.active_request
    /\ t.keyboard_owner = s.keyboard_owner /\ t.pointer_owner = s.pointer_owner
    /\ t.request_epoch = s.request_epoch /\ t.grant_epoch = s.grant_epoch
    /\ t.request_history = s.request_history

(* The daemon stops. *)
Closes(s, t) ==
    /\ Carries(s, t)
    /\ ~DaemonHealthy(t) /\ t.fallback_required /\ t.phase = "FallbackDeferred"
    /\ t.active_request = None /\ t.active_session = None
    /\ t.keyboard_owner = Server /\ t.pointer_owner = Server
    /\ t.pending_multiview = None
    /\ t.request_epoch = s.request_epoch /\ t.switch_epoch = s.switch_epoch

(* The moves a turn of the actor can make. *)
Moves(s, t) ==
    \/ Keeps(s, t) \/ Connects(s, t) \/ Acknowledges(s, t) \/ Waits(s, t)
    \/ /\ ChangesView(s, t) /\ DaemonHealthy(s)
       /\ s.active_request = None \/ s.active_request.switch_epoch = None
    \/ RequestsView(s, t) \/ CompletesView(s, t) \/ Retries(s, t) \/ Falls(s, t)
    \/ Finishes(s, t) \/ Accepts(s, t) \/ Commits(s, t)
    \/ Drops(s, t) \/ Closes(s, t) \/ (Denies(s, t) /\ Requests # {})
    \/ Grants(s, t) \/ Switches(s, t) \/ Renews(s, t)
    \/ \E id \in Requests, target \in Hosts, lease \in OfferedLeases :
            Starts(s, t, id, target, lease)

(* A request after some time: only its times are other. *)
Later(r, v) ==
    /\ v \in EnterRequest
    /\ v.request_id = r.request_id /\ v.target = r.target
    /\ v.request_epoch = r.request_epoch /\ v.status = r.status
    /\ v.switch_epoch = r.switch_epoch
    /\ v.lease.expires = Lower(r.lease.expires)
    /\ v.grant = None <=> r.grant = None
    /\ r.grant # None =>
        /\ v.grant.switch_epoch = r.grant.switch_epoch
        /\ v.grant.grant_epoch = r.grant.grant_epoch
        /\ v.grant.expires = Lower(r.grant.expires)

(* A session w that is the session v after some time. *)
LaterSession(v, w) ==
    /\ w # None /\ w.request_id = v.request_id /\ w.target = v.target
    /\ w.request_epoch = v.request_epoch
    /\ w.renewed_until = Lower(v.renewed_until)
    /\ w.lease.expires = Lower(v.lease.expires)

(* Time that passes in a state. *)
Ages(s, t) ==
    /\ t.ws_state = s.ws_state /\ t.phase = s.phase
    /\ t.phase_deadline = None <=> s.phase_deadline = None
    /\ SameDisplay(s, t) /\ t.effects = s.effects
    /\ t.keyboard_owner = s.keyboard_owner /\ t.pointer_owner = s.pointer_owner
    /\ t.request_epoch = s.request_epoch /\ t.grant_epoch = s.grant_epoch
    /\ t.request_history = s.request_history
    /\ s.active_request = None => t.active_request = None
    /\ s.active_request # None => Later(s.active_request, t.active_request)
    /\ s.active_session = None => t.active_session = None
    /\ s.active_session # None => LaterSession(s.active_session, t.active_session)

(* An unanswered multiview command is older than the newest command, or no request *)
(* has sent a display command since.                                               *)
ViewFits(s, e) ==
    e.type = "SetMultiView" =>
        /\ e.switch_epoch <= s.switch_epoch
        /\ e.switch_epoch = s.switch_epoch =>
            s.active_request = None \/ s.active_request.switch_epoch = None

(* A turn whose handler makes a move. *)
MovingTurn ==
    \E result, answered :
        result.next \in ProtocolState /\ Moves(st, result.next) /\ Turn(result, answered)
================================================================================
