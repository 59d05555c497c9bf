---------------------------- MODULE ClipboardRuntime ----------------------------
(***************************************************************************)
(* The clipboard of the authority and its peers: the runtime task of each    *)
(* host (lan-mouse/src/clipboard.rs), its actor thread and native clipboard, *)
(* and the connections between them.  The service's transitions come in as   *)
(* hooks.  Connections break and come back, actors die and are restarted,    *)
(* peers restart, users copy.                                                *)
(***************************************************************************)
EXTENDS ClipboardActor, SequencesExt

CONSTANTS
    Server, Peers,
    MaxHandoffs,    \* bound on the handoffs of a behaviour
    MaxCopies,      \* bound on the copies users make
    MaxConns,       \* bound on the connections of a peer
    MaxFaults,      \* bound on lost actors and restarted peers
    MaxBacklog,     \* bound on what is outstanding when the service or a user acts
    QUEUE           \* COMMAND_CLASS_COUNT

AllHosts == {Server} \cup Peers

VARIABLES
    auth,       \* RuntimeCore of the authority: coordinator, pending transition, held payload
    peer,       \* RuntimeCore of each peer: authority_state, preparation
    act,        \* the installed actor of each host, or None
    init,       \* without an actor: None, Retry, or <<the token the next one starts with>>
    req,        \* commands queued for the actor
    done,       \* its completions, not yet handled
    slot,       \* the payload slot
    net,        \* per peer: link, the connection each side knows, the two directions
    ses,        \* process session of each host
    native,     \* native clipboard of a host without an actor
    inp,        \* the host that has the input, and the switch or release under way
    copied,     \* has the user copied since the actor's last preparation?
    faults,     \* lost actors and restarted peers
    copies,     \* copies made by users
    failed,     \* did the last provisional capture fail?
    dropped     \* has a peer dropped a command since the last synchronization?

vars == <<auth, peer, act, init, req, done, slot, net, ses, native, inp, copied, faults, copies,
          failed, dropped>>

Retry == <<>>

NoLink == [link |-> 0, s |-> 0, p |-> 0, conns |-> 0, cap |-> FALSE, deafS |-> 0, deafP |-> 0,
           toPeer |-> <<>>, toServer |-> <<>>]

Init ==
    /\ auth = [c |-> NewCoordinator(1, Server, 1, [h \in AllHosts |-> None]),
               pend |-> None, held |-> None]
    /\ peer = [p \in Peers |-> [state |-> None, prep |-> None]]
    /\ act = [h \in AllHosts |-> NewActor(h, 1, [auth |-> IF h = Server THEN 1 ELSE 0,
                                              epoch |-> 0, owner |-> Server], 0, h)]
    /\ init = [h \in AllHosts |-> None]
    /\ req = [h \in AllHosts |-> <<>>] /\ done = [h \in AllHosts |-> <<>>]
    /\ slot = [h \in AllHosts |-> None]
    /\ net = [p \in Peers |-> NoLink]
    /\ ses = [h \in AllHosts |-> 1]
    /\ native = [h \in AllHosts |-> [gen |-> 0, val |-> h]]
    /\ inp = [owner |-> Server, switch |-> None, release |-> None, next |-> 0]
    /\ copied = [h \in AllHosts |-> FALSE]
    /\ faults = 0 /\ copies = 0
    /\ failed = [h \in AllHosts |-> FALSE] /\ dropped = [p \in Peers |-> FALSE]

-----------------------------------------------------------------------------
(* The authority's handlers work on r = [c, pend, held, q, net]: the core, the  *)
(* command queue of the local actor and the connections.                        *)

Core == [c |-> auth.c, pend |-> auth.pend, held |-> auth.held, q |-> req[Server],
         net |-> net, up |-> act[Server] # None]

(* queue_actor: fails without an actor and when the queue is full. *)
CanQueue(r) == r.up /\ Len(r.q) < QUEUE

Queued(r, cmd) == [r EXCEPT !.q = Append(@, cmd)]

SkipHandoff(r, id, reason) ==
    LET k == Skip(r.c, id, reason)
    IN  IF k.err = "none" THEN [r EXCEPT !.c = k.next, !.held = None] ELSE r

QueueOrSkip(r, id, cmd) == IF CanQueue(r) THEN Queued(r, cmd) ELSE SkipHandoff(r, id, "QueueFull")

Reachable(r, p) == r.net[p].s # 0 /\ r.net[p].s = r.net[p].link

Sent(r, p, msg) ==
    IF Reachable(r, p) THEN [r EXCEPT !.net[p].toPeer = Append(@, msg)] ELSE r

(* try_send_control: to the session the handoff was made for. *)
SendOrSkip(r, id, p, session, msg) ==
    IF Reachable(r, p) /\ ses[p] = session THEN Sent(r, p, msg)
    ELSE SkipHandoff(r, id, "ChannelUnavailable")

Envelope(h) == [id |-> h.id, source_token |-> h.source_token,
                source_session |-> h.source_session, target_token |-> h.target_token,
                target_session |-> h.target_session]

ActiveEnvelope(c) == IF c.active = None THEN None ELSE Envelope(c.active)

PublishAuthorityState(r, p) ==
    Sent(r, p, [type |-> "AuthorityState",
                state |-> [token |-> r.c.token, active |-> ActiveEnvelope(r.c)]])

PublishAuthorityStateAll(r) ==
    FoldLeft(PublishAuthorityState, r, SetToSeq(Peers))

StageFor(payload, baseline) ==
    [type |-> "StageSnapshot",
     stage |-> [id |-> payload.handoff.id, snapshot |-> payload.snapshot,
                token |-> payload.handoff.target_token,
                session |-> payload.handoff.target_session,
                baseline |-> baseline, val |-> payload.val]]

PublishPayload(r, payload) ==
    LET h == r.c.active
        target == h.target_token.owner
    IN  IF \/ h = None \/ h.id # payload.handoff.id
           \/ h.source_token # payload.handoff.source_token
           \/ h.target_token # payload.handoff.target_token
        THEN r
        ELSE IF target = Server
        THEN IF h.baseline = None THEN r
             ELSE QueueOrSkip(r, h.id, StageFor(payload, h.baseline))
        ELSE SendOrSkip(r, h.id, target, payload.handoff.target_session,
                        [type |-> "SnapshotDeliver", payload |-> payload])

PublishPendingPayload(r, id, snapshot) ==
    LET taken == [r EXCEPT !.held = None] IN
    IF r.held = None THEN r
    ELSE IF r.held.handoff.id # id \/ r.held.snapshot # snapshot THEN taken
    ELSE PublishPayload(taken, r.held)

CancelEverywhere(r, id) ==
    LET local == IF CanQueue(r) THEN Queued(r, [type |-> "CancelHandoff", id |-> id]) ELSE r
        tell(acc, p) == Sent(acc, p, [type |-> "CancelHandoff", id |-> id])
    IN  FoldLeft(tell, [local EXCEPT !.held = None], SetToSeq(Peers))

DispatchOne(r, cmd) ==
    LET local == cmd.token.owner = Server
        actorCmd == [type |-> cmd.type, id |-> cmd.id, token |-> cmd.token]
        wire == [type |-> IF cmd.type = "ActivateTarget" THEN "OwnershipActivated"
                          ELSE cmd.type,
                 handoff |-> ActiveEnvelope(r.c)]
    IN  CASE cmd.type = "CancelHandoff" -> CancelEverywhere(r, cmd.id)
          [] cmd.type = "PublishSnapshot" ->
                IF IsActive(r.c, cmd.id) /\ r.c.active.source_token.owner = Server
                THEN QueueOrSkip(r, cmd.id, cmd)
                ELSE PublishPendingPayload(r, cmd.id, cmd.snapshot)
          [] cmd.type = "CaptureSource" /\ ~local -> PublishAuthorityState(r, cmd.token.owner)
          [] cmd.type = "CaptureSource" /\ local -> QueueOrSkip(r, cmd.id, actorCmd)
          [] cmd.type \in {"PrepareTarget", "ActivateTarget"} ->
                IF local THEN QueueOrSkip(r, cmd.id, actorCmd)
                ELSE IF ~IsActive(r.c, cmd.id) THEN r
                ELSE SendOrSkip(r, cmd.id, cmd.token.owner, cmd.session, wire)

Dispatch(r, cmds) == FoldLeft(DispatchOne, r, cmds)

(* A method of the coordinator, and its commands. *)
Apply(r, k) == Dispatch([r EXCEPT !.c = k.next], k.cmds)

ApplyIfOk(r, k) == IF k.err = "none" THEN Apply(r, k) ELSE [r EXCEPT !.c = k.next]

Begin(r, transition, target) ==
    LET k == BeginHandoff(r.c, target)
        pend == [transition |-> transition, id |-> k.next.pending.id,
                 token |-> k.next.pending.token,
                 session |-> IF k.next.active = None THEN 0 ELSE k.next.active.target_session]
    IN  IF k.err # "none" THEN r ELSE Apply([r EXCEPT !.pend = pend], k)

Activate(r, transition) ==
    LET k == OwnershipActivated(r.c, r.pend.id, r.pend.token, r.pend.session)
        kept == [r EXCEPT !.pend = IF k.next.active = None THEN None ELSE @]
    IN  IF r.pend = None \/ r.pend.transition # transition THEN r
        ELSE IF k.err # "none" THEN [r EXCEPT !.c = k.next]
        ELSE PublishAuthorityStateAll(Apply(kept, k))

CancelCurrent(r) ==
    IF r.pend = None THEN r ELSE ApplyIfOk([r EXCEPT !.pend = None], Abort(r.c, r.pend.id))

CancelTransition(r, transition) ==
    IF r.pend = None \/ r.pend.transition # transition THEN r ELSE CancelCurrent(r)

PeerConnectedTo(r, p) ==
    LET known == IF net[p].cap THEN Apply(r, SetProcessSession(r.c, p, ses[p])) ELSE r
    IN  PublishAuthorityState([known EXCEPT !.net[p].s = net[p].link], p)

PeerDisconnected(r, p) ==
    Apply([r EXCEPT !.net[p].s = 0], RemoveProcessSession(r.c, p))

(* The authority holds the payload of an offer until the target is prepared. *)
AcceptSnapshotOffer(r, p, payload) ==
    LET h == payload.handoff
        k == SourceCaptured(r.c, h.id, h.source_token, h.source_session, payload.snapshot, FALSE)
    IN  IF h.source_token.owner # p \/ ActiveEnvelope(r.c) # h THEN r
        ELSE IF k.err # "none" THEN [r EXCEPT !.held = None]
        ELSE Apply([r EXCEPT !.held = payload], k)

AuthorityMessage(r, p, msg) ==
    CASE msg.type = "PrepareResult" /\ msg.ok ->
            ApplyIfOk(r, TargetPrepared(r.c, msg.id, msg.token, msg.session, msg.baseline))
      [] msg.type = "ApplyResult" /\ msg.ok ->
            [r EXCEPT !.c = Applied(r.c, msg.id, msg.snapshot).next]
      [] msg.type \in {"PrepareResult", "ApplyResult"} /\ ~msg.ok ->
            SkipHandoff(r, msg.id, "Skipped")
      [] msg.type = "SnapshotOffer" -> AcceptSnapshotOffer(r, p, msg.payload)
      [] msg.type = "ProtocolError" -> r

AuthorityActorEvent(r, event) ==
    CASE event.type = "Prepared" ->
            ApplyIfOk(r, TargetPrepared(r.c, event.id, event.token, ses[Server], event.baseline))
      [] event.type = "Captured" ->
            ApplyIfOk(r, SourceCaptured(r.c, event.id, event.token, ses[Server],
                                        event.snapshot, FALSE))
      [] event.type = "Staged" -> [r EXCEPT !.c = SnapshotStaged(r.c, event.id).next]
      [] event.type = "Applied" -> [r EXCEPT !.c = Applied(r.c, event.id, event.snapshot).next]
      [] event.type \in {"Skipped", "BackendUnavailable"} /\ event.id # None ->
            SkipHandoff(r, event.id, "Skipped")
      [] OTHER -> r

AuthorityPayload(r, payload) ==
    LET h == ActiveEnvelope(r.c) IN
    IF \/ h = None \/ h.id # payload.id \/ h.source_token # payload.token
       \/ h.source_session # ses[Server] \/ payload.snapshot.session # ses[Server]
    THEN r
    ELSE PublishPayload(r, [handoff |-> h, snapshot |-> payload.snapshot, val |-> payload.val])

Put(r) ==
    /\ auth' = [c |-> r.c, pend |-> r.pend, held |-> r.held]
    /\ req' = [req EXCEPT ![Server] = r.q]
    /\ net' = r.net

-----------------------------------------------------------------------------
(* The peer's handlers return [role, q, out]: its role, the commands for its     *)
(* actor and the messages for the authority.                                     *)

Quiet(role) == [role |-> role, q |-> <<>>, out |-> <<>>]

ActorUp(p) == act[p] # None /\ Len(req[p]) < QUEUE

(* An answer uses the envelope the preparation came with, or the announced one. *)
PeerHandoff(role, id) ==
    IF role.prep # None /\ role.prep.handoff.id = id THEN role.prep.handoff
    ELSE IF role.state # None /\ role.state.active # None /\ role.state.active.id = id
    THEN role.state.active ELSE None

PrepareResult(p, handoff, ok, baseline) ==
    [type |-> "PrepareResult", id |-> handoff.id, token |-> handoff.target_token,
     session |-> ses[p], baseline |-> baseline, ok |-> ok]

ApplyResult(handoff, snapshot, ok) ==
    [type |-> "ApplyResult", id |-> handoff.id, snapshot |-> snapshot, ok |-> ok]

AcceptAuthorityState(p, role, state) ==
    LET fresh == role.state # None /\ role.state.token.auth # state.token.auth
        bind == IF state.active # None /\ state.active.source_token.owner = p
                THEN <<[type |-> "BindProvisional", id |-> state.active.id,
                        token |-> state.active.source_token]>>
                ELSE <<>>
    IN  [role |-> [state |-> state, prep |-> IF fresh THEN None ELSE role.prep],
         q |-> <<[type |-> "SynchronizeAuthority", token |-> state.token]>> \o bind,
         out |-> <<>>]

AcceptPrepareTarget(p, role, handoff) ==
    LET kept == [role EXCEPT !.prep = [handoff |-> handoff, baseline |-> None]] IN
    IF ActorUp(p)
    THEN [Quiet(kept) EXCEPT !.q = <<[type |-> "PrepareTarget", id |-> handoff.id,
                                      token |-> handoff.target_token]>>]
    ELSE [Quiet(kept) EXCEPT !.out = <<PrepareResult(p, handoff, FALSE, None)>>]

AcceptActivation(role, handoff) ==
    [Quiet(IF role.state = None THEN role
           ELSE [role EXCEPT !.state = [token |-> handoff.target_token, active |-> handoff]])
     EXCEPT !.q = <<[type |-> "ActivateTarget", id |-> handoff.id,
                     token |-> handoff.target_token]>>]

StageDelivered(p, role, payload) ==
    IF \/ role.prep = None \/ role.prep.baseline = None
       \/ role.prep.handoff.id # payload.handoff.id
       \/ role.prep.handoff.target_token # payload.handoff.target_token
    THEN Quiet(role)
    ELSE [Quiet(role) EXCEPT !.q = <<StageFor(payload, role.prep.baseline)>>]

PeerMessage(p, role, msg) ==
    CASE msg.type = "AuthorityState" -> AcceptAuthorityState(p, role, msg.state)
      [] msg.type = "PrepareTarget" -> AcceptPrepareTarget(p, role, msg.handoff)
      [] msg.type = "OwnershipActivated" -> AcceptActivation(role, msg.handoff)
      [] msg.type = "SnapshotDeliver" -> StageDelivered(p, role, msg.payload)
      [] msg.type = "CancelHandoff" ->
            [Quiet([role EXCEPT !.prep = None])
             EXCEPT !.q = <<[type |-> "CancelHandoff", id |-> msg.id]>>]

PeerActorEvent(p, role, cmd, event) ==
    LET handoff == PeerHandoff(role, event.id)
        say(msg) == [Quiet(role) EXCEPT !.out = <<msg>>]
    IN  CASE event.type = "Prepared" /\ role.prep # None /\ role.prep.handoff.id = event.id
             /\ role.prep.handoff.target_token = event.token
             /\ role.prep.handoff.target_session = ses[p] ->
                [Quiet([role EXCEPT !.prep.baseline = event.baseline]) EXCEPT
                    !.out = <<PrepareResult(p, role.prep.handoff, TRUE, event.baseline)>>]
          [] event.type = "Captured" ->
                [Quiet(role) EXCEPT !.q = <<[type |-> "PublishSnapshot", id |-> event.id,
                                             snapshot |-> event.snapshot]>>]
          [] event.type = "Applied" /\ handoff # None ->
                say(ApplyResult(handoff, event.snapshot, TRUE))
          [] event.type \in {"Skipped", "BackendUnavailable"} /\ event.id # None ->
                IF cmd.type \notin {"PrepareTarget", "StageSnapshot"}
                THEN say([type |-> "ProtocolError"])
                ELSE IF handoff = None THEN Quiet(role)
                ELSE IF cmd.type = "PrepareTarget"
                THEN say(PrepareResult(p, handoff, FALSE, None))
                ELSE say(ApplyResult(handoff, cmd.stage.snapshot, FALSE))
          [] OTHER -> Quiet(role)

PeerPayload(p, role, payload) ==
    LET h == PeerHandoff(role, payload.id) IN
    IF \/ h = None \/ h.source_token # payload.token
       \/ h.source_session # ses[p] \/ payload.snapshot.session # ses[p]
    THEN Quiet(role)
    ELSE [Quiet(role) EXCEPT !.out = <<[type |-> "SnapshotOffer",
            payload |-> [handoff |-> h, snapshot |-> payload.snapshot, val |-> payload.val]]>>]

(* What a peer's handler leaves: commands that meet a full queue, and messages   *)
(* without a connection, are dropped.                                            *)
Taken(p, q) ==
    LET all == req[p] \o q IN
    IF act[p] = None THEN <<>> ELSE SubSeq(all, 1, Min({QUEUE, Len(all)}))

PutPeer(p, m, inbound) ==
    /\ peer' = [peer EXCEPT ![p] = m.role]
    /\ req' = [req EXCEPT ![p] = Taken(p, m.q)]
    /\ dropped' = [dropped EXCEPT ![p] =
                        \/ Len(req[p]) + Len(m.q) > QUEUE
                        \/ @ /\ \A i \in DOMAIN m.q : m.q[i].type # "SynchronizeAuthority"]
    /\ net' = [net EXCEPT ![p].toPeer = inbound,
                          ![p].toServer = IF net[p].p # 0 /\ net[p].p = net[p].link
                                          THEN @ \o m.out ELSE @]

-----------------------------------------------------------------------------
(* The service's hooks. *)

(* Commands, completions and messages not yet handled. *)
Backlog ==
    MapThenSumSet(LAMBDA h : Len(req[h]) + Len(done[h]), AllHosts)
    + MapThenSumSet(LAMBDA p : Len(net[p].toPeer) + Len(net[p].toServer), Peers)

Outgoing(n) == [kind |-> "Outgoing", n |-> n]
Fallback(n) == [kind |-> "Fallback", n |-> n]

clipboard == <<peer, act, init, done, slot, ses, native, copied, faults, copies, failed, dropped>>

(* A switch is reserved, then committed or given up. *)
BeginRemote(t) ==
    /\ Backlog <= MaxBacklog
    /\ inp.owner = Server /\ inp.switch = None
    /\ inp.next < MaxHandoffs
    /\ inp' = [inp EXCEPT !.switch = t, !.next = @ + 1]
    /\ Put(Begin(Core, Outgoing(inp.next + 1), t))
    /\ UNCHANGED clipboard

CommitRemote ==
    /\ Backlog <= MaxBacklog
    /\ inp.switch # None
    /\ inp' = [inp EXCEPT !.switch = None, !.owner = inp.switch]
    /\ Put(Activate(Core, Outgoing(inp.next)))
    /\ UNCHANGED clipboard

AbandonRemote ==
    /\ Backlog <= MaxBacklog
    /\ inp.switch # None
    /\ inp' = [inp EXCEPT !.switch = None]
    /\ Put(CancelTransition(Core, Outgoing(inp.next)))
    /\ UNCHANGED clipboard

(* The peer with the input asks for its release and captures its clipboard at once. *)
ReleaseByPeer ==
    /\ Backlog <= MaxBacklog
    /\ inp.owner # Server /\ inp.release = None
    /\ inp' = [inp EXCEPT !.release = "asked"]
    /\ LET p == inp.owner
           owns == peer[p].state # None /\ peer[p].state.token.owner = p
           cmd == [type |-> "CaptureSource", id |-> None, token |-> peer[p].state.token]
       IN  req' = [req EXCEPT ![p] = Taken(p, IF owns THEN <<cmd>> ELSE <<>>)]
    /\ UNCHANGED <<auth, net, clipboard>>

BeginFallback ==
    /\ Backlog <= MaxBacklog
    /\ inp.release = "asked" /\ inp.next < MaxHandoffs
    /\ inp' = [inp EXCEPT !.release = "begun", !.next = @ + 1]
    /\ Put(Begin(Core, Fallback(inp.next + 1), Server))
    /\ UNCHANGED clipboard

CommitFallback ==
    /\ Backlog <= MaxBacklog
    /\ inp.release = "begun"
    /\ inp' = [inp EXCEPT !.release = None, !.owner = Server]
    /\ Put(Activate(Core, Fallback(inp.next)))
    /\ UNCHANGED clipboard

(* Any other release: the input returns, and only a switch of that number is      *)
(* cancelled.                                                                     *)
ReleaseByHub ==
    /\ Backlog <= MaxBacklog
    /\ inp.owner # Server
    /\ inp' = [inp EXCEPT !.release = None, !.owner = Server]
    /\ Put(CancelTransition(Core, Outgoing(inp.next)))
    /\ UNCHANGED clipboard

CaptureDisabled ==
    /\ Backlog <= MaxBacklog
    /\ inp' = [inp EXCEPT !.release = None, !.owner = Server, !.switch = None]
    /\ inp' # inp
    /\ Put(CancelCurrent(Core))
    /\ UNCHANGED clipboard

-----------------------------------------------------------------------------
(* Connections. *)

Broken(n) == [n EXCEPT !.link = 0, !.cap = FALSE, !.toPeer = <<>>, !.toServer = <<>>]

Connect(p) ==
    /\ net[p].link = 0 /\ net[p].conns < MaxConns
    /\ net' = [net EXCEPT ![p].link = net[p].conns + 1, ![p].conns = @ + 1,
                          ![p].cap = act[Server] # None /\ act[p] # None]
    /\ UNCHANGED <<auth, req, inp, clipboard>>

Break(p) ==
    /\ net[p].link # 0
    /\ net' = [net EXCEPT ![p] = Broken(@)]
    /\ UNCHANGED <<auth, req, inp, clipboard>>

ServerConnected(p) ==
    /\ net[p].link > net[p].deafS /\ net[p].s # net[p].link
    /\ Put(PeerConnectedTo(Core, p))
    /\ UNCHANGED <<inp, clipboard>>

PeerConnected(p) ==
    /\ net[p].link > net[p].deafP /\ net[p].p # net[p].link
    /\ net' = [net EXCEPT ![p].p = net[p].link]
    /\ UNCHANGED <<auth, req, inp, clipboard>>

ServerDisconnected(p) ==
    /\ net[p].s > net[p].deafS /\ net[p].s # net[p].link
    /\ Put(PeerDisconnected(Core, p))
    /\ UNCHANGED <<inp, clipboard>>

ServerGone(p) ==
    /\ net[p].p > net[p].deafP /\ net[p].p # net[p].link
    /\ LET role == peer[p]
           cancel == IF role.state = None \/ role.state.active = None THEN <<>>
                     ELSE <<[type |-> "CancelHandoff", id |-> role.state.active.id]>>
       IN  /\ peer' = [peer EXCEPT ![p] = [state |-> None, prep |-> None]]
           /\ req' = [req EXCEPT ![p] = Taken(p, cancel)]
    /\ net' = [net EXCEPT ![p].p = 0]
    /\ UNCHANGED <<auth, act, init, done, slot, ses, native, inp, copied, faults, copies, failed,
                   dropped>>

ServerReceives(p) ==
    /\ net[p].toServer # <<>> /\ net[p].s = net[p].link /\ net[p].link > net[p].deafS
    /\ Put(AuthorityMessage([Core EXCEPT !.net[p].toServer = Tail(@)], p,
                            Head(net[p].toServer)))
    /\ UNCHANGED <<inp, clipboard>>

PeerReceives(p) ==
    /\ net[p].toPeer # <<>> /\ net[p].p = net[p].link /\ net[p].link > net[p].deafP
    /\ PutPeer(p, PeerMessage(p, peer[p], Head(net[p].toPeer)), Tail(net[p].toPeer))
    /\ UNCHANGED <<auth, act, init, done, slot, ses, native, inp, copied, faults, copies, failed>>

(* The shutdown of a transport aborts its manager before it can close the            *)
(* connections: they stay open, and nobody takes their events. Such a connection     *)
(* ends when the next message comes in, or at once when the runtime never got its     *)
(* handle.                                                                           *)
OrphanEnds(p) ==
    /\ net[p].link # 0
    /\ \/ net[p].link <= net[p].deafS /\ (net[p].s # net[p].link \/ net[p].toServer # <<>>)
       \/ net[p].link <= net[p].deafP /\ (net[p].p # net[p].link \/ net[p].toPeer # <<>>)
    /\ net' = [net EXCEPT ![p] = Broken(@)]
    /\ UNCHANGED <<auth, req, inp, clipboard>>

(* The authority's new transport dials again. The peer refuses the connection while   *)
(* the old one is in its registry; the authority's runtime takes the refused one for   *)
(* its peer until it hears of its end, and lets go of the old one, which closes.      *)
Redial(p) ==
    /\ net[p].link # 0 /\ net[p].link <= net[p].deafS /\ net[p].conns < MaxConns
    /\ LET cap == act[Server] # None /\ act[p] # None
           known == IF cap THEN Apply(Core, SetProcessSession(auth.c, p, ses[p])) ELSE Core
           k == net[p].conns + 1
       IN  IF net[p].link <= net[p].deafP
           THEN /\ net' = [net EXCEPT ![p] = [Broken(@) EXCEPT !.link = k, !.conns = k, !.cap = cap]]
                /\ UNCHANGED <<auth, req>>
           ELSE Put([known EXCEPT !.net[p] = [Broken(@) EXCEPT !.conns = k, !.s = k]])
    /\ UNCHANGED <<inp, clipboard>>

-----------------------------------------------------------------------------
(* The actor threads. *)

(* One command of the actor thread; the loss of the backend ends the thread. *)
ActorStep(h) ==
    /\ act[h] # None /\ req[h] # <<>>
    /\ \E o \in Handle(act[h], Head(req[h]), slot[h] = None) :
        LET lost == o.event.type = "BackendUnavailable" IN
        /\ lost => faults < MaxFaults
        /\ faults' = IF lost THEN faults + 1 ELSE faults
        /\ act' = [act EXCEPT ![h] = IF lost THEN None ELSE o.next]
        /\ native' = [native EXCEPT ![h] = [gen |-> o.next.gen, val |-> o.next.val]]
        /\ req' = [req EXCEPT ![h] = IF lost THEN <<>> ELSE Tail(@)]
        /\ done' = [done EXCEPT ![h] = Append(@, [cmd |-> Head(req[h]), event |-> o.event])]
        /\ slot' = [slot EXCEPT ![h] = IF o.payload = None THEN @ ELSE o.payload]
        /\ copied' = [copied EXCEPT ![h] = @ /\ o.event.type # "Prepared"]
        /\ failed' = [failed EXCEPT ![h] = IF Head(req[h]).type = "CaptureSource" /\ o.event.id = None
                                           THEN o.event.type = "Skipped" ELSE @]
    /\ UNCHANGED <<auth, peer, init, net, ses, inp, copies, dropped>>

HandleCompletion(h) ==
    /\ done[h] # <<>>
    /\ LET d == Head(done[h]) IN
        IF h = Server
        THEN Put(AuthorityActorEvent(Core, d.event)) /\ UNCHANGED <<peer, dropped>>
        ELSE PutPeer(h, PeerActorEvent(h, peer[h], d.cmd, d.event), net[h].toPeer)
             /\ UNCHANGED auth
    /\ done' = [done EXCEPT ![h] = Tail(@)]
    /\ UNCHANGED <<act, init, slot, ses, native, inp, copied, faults, copies, failed>>

HandlePayload(h) ==
    /\ slot[h] # None
    /\ IF h = Server
       THEN Put(AuthorityPayload(Core, slot[h])) /\ UNCHANGED <<peer, dropped>>
       ELSE PutPeer(h, PeerPayload(h, peer[h], slot[h]), net[h].toPeer) /\ UNCHANGED auth
    /\ slot' = [slot EXCEPT ![h] = None]
    /\ UNCHANGED <<act, init, done, ses, native, inp, copied, faults, copies, failed>>

(* The transport of h is replaced: what its old connections bring from now on, and    *)
(* the events that wait in the old queue, do not reach the runtime.                   *)
RestartTransport(h) ==
    \E k \in [Peers -> 0..MaxBacklog] :
        net' = [p \in Peers |->
            IF h = Server THEN [net[p] EXCEPT !.deafS = net[p].conns,
                                !.toServer = SubSeq(@, Min({k[p], Len(@)}) + 1, Len(@))]
            ELSE IF h = p THEN [net[p] EXCEPT !.deafP = net[p].conns,
                                !.toPeer = SubSeq(@, Min({k[p], Len(@)}) + 1, Len(@))]
            ELSE net[p]]

(* The runtime notices the end of the thread when the payload channel closes, and      *)
(* restarts the transport without the capability.                                     *)
UninstallActor(h) ==
    /\ act[h] = None /\ init[h] = None /\ slot[h] = None
    /\ init' = [init EXCEPT ![h] = Retry]
    /\ IF h = Server
       THEN LET c == auth.c IN
            /\ auth' = [auth EXCEPT !.held = None,
                          !.c = IF c.active = None THEN c ELSE Skip(c, c.active.id, "Lost").next]
            /\ UNCHANGED peer
       ELSE /\ peer' = [peer EXCEPT ![h].prep = None]
            /\ UNCHANGED auth
    /\ RestartTransport(h)
    /\ UNCHANGED <<act, req, done, slot, ses, native, inp, copied, faults, copies, failed, dropped>>

ActorInitialToken(h) ==
    IF h = Server THEN auth.c.token
    ELSE IF peer[h].state # None THEN peer[h].state.token
    ELSE [auth |-> 0, epoch |-> 0, owner |-> Server]

StartNativeActor(h) ==
    /\ init[h] = Retry
    /\ init' = [init EXCEPT ![h] = <<ActorInitialToken(h)>>]
    /\ UNCHANGED <<auth, peer, act, req, done, slot, net, ses, native, inp, copied, faults,
                   copies, failed, dropped>>


InstallActor(h) ==
    /\ init[h] \notin {None, Retry}
    /\ init' = [init EXCEPT ![h] = None]
    /\ act' = [act EXCEPT ![h] = NewActor(h, ses[h], init[h][1], native[h].gen, native[h].val)]
    /\ RestartTransport(h)
    /\ UNCHANGED <<auth, peer, req, done, slot, ses, native, inp, copied, faults, copies, failed,
                   dropped>>

(* A peer's process starts again, with a new session. *)
RestartPeer(p) ==
    /\ faults < MaxFaults
    /\ faults' = faults + 1
    /\ ses' = [ses EXCEPT ![p] = @ + 1]
    /\ peer' = [peer EXCEPT ![p] = [state |-> None, prep |-> None]]
    /\ act' = [act EXCEPT ![p] = None]
    /\ init' = [init EXCEPT ![p] = Retry]
    /\ req' = [req EXCEPT ![p] = <<>>] /\ done' = [done EXCEPT ![p] = <<>>]
    /\ slot' = [slot EXCEPT ![p] = None]
    /\ net' = [net EXCEPT ![p] = [Broken(@) EXCEPT !.p = 0]]
    /\ inp' = IF inp.owner = p THEN [inp EXCEPT !.owner = Server, !.release = None] ELSE inp
    /\ UNCHANGED <<auth, native, copied, copies, failed, dropped>>

(* A change of the configuration or the port starts the authority's runtime again, *)
(* with new sessions; the input stays where it is.                                 *)
RestartClipboard ==
    /\ faults < MaxFaults
    /\ faults' = faults + 1
    /\ ses' = [ses EXCEPT ![Server] = @ + 1]
    /\ auth' = [c |-> NewCoordinator(auth.c.auth + 1, Server, ses[Server] + 1,
                                     [h \in AllHosts |-> None]),
                pend |-> None, held |-> None]
    /\ act' = [act EXCEPT ![Server] = None]
    /\ init' = [init EXCEPT ![Server] = Retry]
    /\ req' = [req EXCEPT ![Server] = <<>>] /\ done' = [done EXCEPT ![Server] = <<>>]
    /\ slot' = [slot EXCEPT ![Server] = None]
    /\ net' = [p \in Peers |-> [Broken(net[p]) EXCEPT !.s = 0]]
    /\ inp' = [inp EXCEPT !.release = IF @ = "begun" THEN None ELSE @]
    /\ UNCHANGED <<peer, native, copied, copies, failed, dropped>>

UserCopies(h) ==
    /\ Backlog <= MaxBacklog
    /\ copies < MaxCopies
    /\ copies' = copies + 1
    /\ LET n == [gen |-> native[h].gen + 1, val |-> <<h, native[h].gen + 1>>] IN
       /\ native' = [native EXCEPT ![h] = n]
       /\ act' = [act EXCEPT ![h] = IF @ = None THEN None
                                    ELSE [@ EXCEPT !.gen = n.gen, !.val = n.val]]
    /\ copied' = [copied EXCEPT ![h] = TRUE]
    /\ UNCHANGED <<auth, peer, init, req, done, slot, net, ses, inp, faults, failed, dropped>>

Next ==
    \/ \E t \in Peers : BeginRemote(t)
    \/ CommitRemote
    \/ AbandonRemote
    \/ ReleaseByPeer
    \/ BeginFallback
    \/ CommitFallback
    \/ ReleaseByHub
    \/ CaptureDisabled
    \/ \E p \in Peers : Connect(p)
    \/ \E p \in Peers : Break(p)
    \/ \E p \in Peers : ServerConnected(p)
    \/ \E p \in Peers : PeerConnected(p)
    \/ \E p \in Peers : ServerDisconnected(p)
    \/ \E p \in Peers : ServerGone(p)
    \/ \E p \in Peers : ServerReceives(p)
    \/ \E p \in Peers : PeerReceives(p)
    \/ \E p \in Peers : OrphanEnds(p)
    \/ \E p \in Peers : Redial(p)
    \/ \E h \in AllHosts : ActorStep(h)
    \/ \E h \in AllHosts : HandleCompletion(h)
    \/ \E h \in AllHosts : HandlePayload(h)
    \/ \E h \in AllHosts : UninstallActor(h)
    \/ \E h \in AllHosts : StartNativeActor(h)
    \/ \E h \in AllHosts : InstallActor(h)
    \/ \E p \in Peers : RestartPeer(p)
    \/ RestartClipboard
    \/ \E h \in AllHosts : UserCopies(h)

Spec == Init /\ [][Next]_vars

-----------------------------------------------------------------------------

(* A native write: the actor's applied identity is new. *)
Wrote(h) ==
    act[h] # None /\ act'[h] # None /\ act'[h].applied \notin {None, act[h].applied}

(* The handoff of the coordinator is fenced by its tokens: before the activation it    *)
(* starts from the current token and is the pending one; after it, its target is the   *)
(* current owner (coordinator.rs, begin_handoff and ownership_activated).              *)
HandoffFenced == Fenced(auth.c)

(* What a user copied on the target after its actor's preparation survives: no stage   *)
(* is written over it, whatever order preparation, activation and payload come in      *)
(* (clipboardplan.md, DestinationPreservation; apply_stage).                           *)
KeepsCopies == \A h \in AllHosts : Wrote(h) => ~copied[h]
NoLostCopy == [][KeepsCopies]_vars

(* No host's clipboard is written before the authority has moved the ownership there   *)
(* (the current owner of NoStaleApply; stage_snapshot and apply_stage).                *)
WritesAsOwner ==
    \A h \in AllHosts :
        Wrote(h) /\ act'[h].token.auth = auth.c.auth => auth.c.token.epoch >= act'[h].token.epoch
WriteAfterActivation == [][WritesAsOwner]_vars

(* At rest, with a connection of the peer's current transport, known to both sides,    *)
(* and no command dropped on a full queue since the last synchronization, a peer and   *)
(* its actor have the authority's owner token, also after an actor was replaced while   *)
(* the token moved (the transport restart of run, publish_authority_state).            *)
AtRest(p) ==
    /\ net[p].link > net[p].deafP /\ net[p].s = net[p].link /\ net[p].p = net[p].link
    /\ net[p].toPeer = <<>> /\ req[p] = <<>> /\ act[p] # None /\ ~dropped[p]

PeersAgreeAtRest ==
    \A p \in Peers : AtRest(p) =>
        /\ peer[p].state # None /\ peer[p].state.token = auth.c.token
        /\ act[p].token = auth.c.token

-----------------------------------------------------------------------------
(* What the documents say and the code does not do. *)

(* A handoff starts from the host that has the input (clipboarddesgin.md, BeginHandoff). *)
SourceIsInputOwner ==
    [][ auth'.c.next_handoff # auth.c.next_handoff /\ auth'.c.active # None
            => auth'.c.active.source_token.owner = inp.owner ]_vars

(* When the ownership is back at the server, its actor learns the token                  *)
(* (clipboarddesgin.md, Activation).                                                     *)
ServerActorAgrees ==
    auth.c.token.owner = Server /\ req[Server] = <<>> /\ act[Server] # None
        => act[Server].token = auth.c.token

(* A release whose capture failed has no result to bind; an older one is not taken       *)
(* instead (clipboardplan.md, P0.2).                                                     *)
OldSnapshotNotBound ==
    [][ \A p \in Peers :
            /\ Len(done'[p]) > Len(done[p])
            /\ Last(done'[p]).cmd.type = "BindProvisional"
            /\ Last(done'[p]).event.type = "Captured"
            => ~failed[p] ]_vars

(* A handoff emits at most one request of a class to an actor (the comment on the        *)
(* capacity of the command queue in spawn_actor).                                        *)
OneRequestPerClass ==
    \A h \in AllHosts : \A i, j \in DOMAIN req[h] :
        /\ i # j /\ req[h][i].type = req[h][j].type
        /\ req[h][i].type \in {"PrepareTarget", "BindProvisional", "ActivateTarget", "CancelHandoff"}
        => req[h][i].id # req[h][j].id

(* The scheduler runs the runtime tasks and the actor threads, and the transport         *)
(* delivers what it has taken.                                                           *)
Fairness ==
    /\ \A p \in Peers :
        /\ WF_vars(ServerConnected(p)) /\ WF_vars(PeerConnected(p))
        /\ WF_vars(ServerDisconnected(p)) /\ WF_vars(ServerGone(p))
        /\ WF_vars(ServerReceives(p)) /\ WF_vars(PeerReceives(p))
        /\ WF_vars(OrphanEnds(p)) /\ WF_vars(Redial(p))
    /\ \A h \in AllHosts :
        /\ WF_vars(ActorStep(h)) /\ WF_vars(HandleCompletion(h)) /\ WF_vars(HandlePayload(h))
        /\ WF_vars(UninstallActor(h)) /\ WF_vars(StartNativeActor(h)) /\ WF_vars(InstallActor(h))

FairSpec == Spec /\ Fairness

(* An activated handoff ends, with an apply or a skip (clipboardplan.md, Liveness).      *)
ActivatedHandoffSettles ==
    (auth.c.active # None /\ auth.c.active.activated) ~>
        (auth.c.active = None \/ ~auth.c.active.activated)

(* A host whose native access is back becomes a target again: the authority learns the   *)
(* session of a peer with a connection and an actor (clipboarddesgin.md, 13: the          *)
(* reinitialization advertises the capability).                                          *)
CapabilityAdvertised ==
    \A p \in Peers :
        (net[p].link # 0 /\ act[p] # None /\ act[Server] # None) ~>
            (auth.c.sessions[p] # None \/ net[p].link = 0 \/ act[p] = None \/ act[Server] = None)
================================================================================
