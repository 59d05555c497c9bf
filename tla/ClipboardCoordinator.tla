-------------------------- MODULE ClipboardCoordinator --------------------------
(***************************************************************************)
(* The authority's view of the clipboard (coordinator.rs of                 *)
(* lan-mouse-clipboard): who owns it, and the one handoff under way.  Each  *)
(* method is an operator on the Coordinator record c with the result        *)
(* [err, next, cmds].                                                       *)
(*                                                                         *)
(* A token is [auth, epoch, owner], a handoff id [auth, epoch], a snapshot  *)
(* [session, seq].  Kind and length of a snapshot are left to the actor,    *)
(* except that the length may exceed max_bytes.                             *)
(***************************************************************************)
EXTENDS Naturals, Sequences

CONSTANT None

Result(err, c, cmds) == [err |-> err, next |-> c, cmds |-> cmds]

Stale(c, err) == Result(err, c, <<>>)

NewCoordinator(auth, server, session, sessions) ==
    [enabled |-> TRUE, auth |-> auth,
     token |-> [auth |-> auth, epoch |-> 0, owner |-> server],
     next_ownership |-> 0, next_handoff |-> 0,
     sessions |-> [sessions EXCEPT ![server] = session],
     pending |-> None, active |-> None, terminal |-> None]

End(c, outcome) == [c EXCEPT !.active = None, !.terminal = [id |-> c.active.id, outcome |-> outcome]]

(* cancel *)
CancelActive(c) == IF c.active = None THEN c ELSE End(c, "Canceled")

CancelCommands(c) ==
    IF c.active = None THEN <<>> ELSE <<[type |-> "CancelHandoff", id |-> c.active.id]>>

Cancelled(c) == Result("none", CancelActive(c), CancelCommands(c))

Involves(handoff, host) ==
    handoff # None /\ host \in {handoff.source_token.owner, handoff.target_token.owner}

SetProcessSession(c, host, session) ==
    LET known == [c EXCEPT !.sessions[host] = session] IN
    IF c.sessions[host] \notin {None, session} /\ Involves(c.active, host)
    THEN Cancelled(known) ELSE Stale(known, "none")

RemoveProcessSession(c, host) ==
    LET gone == [c EXCEPT !.sessions[host] = None] IN
    IF c.sessions[host] # None /\ Involves(c.active, host)
    THEN Cancelled(gone) ELSE Stale(gone, "none")

SetEnabled(c, enabled) ==
    LET set == [c EXCEPT !.enabled = enabled] IN
    IF c.enabled /\ ~enabled THEN Cancelled(set) ELSE Stale(set, "none")

HandoffId(c, epoch) == [auth |-> c.auth, epoch |-> epoch]

(* A new handoff replaces the one under way.  Ownership will move even if the  *)
(* clipboard cannot: without both sessions there is only the pending token.    *)
BeginHandoff(c, target) ==
    LET id == HandoffId(c, c.next_handoff + 1)
        token == [auth |-> c.auth, epoch |-> c.next_ownership + 1, owner |-> target]
        source == c.sessions[c.token.owner]
        begun == [CancelActive(c) EXCEPT
                    !.next_ownership = @ + 1, !.next_handoff = @ + 1,
                    !.pending = [id |-> id, token |-> token]]
    IN  IF target = c.token.owner THEN Stale(c, "SameHost")
        ELSE IF c.enabled /\ source # None /\ c.sessions[target] # None
        THEN Result("none",
               [begun EXCEPT !.active =
                    [id |-> id, source_token |-> c.token, source_session |-> source,
                     target_token |-> token, target_session |-> c.sessions[target],
                     phase |-> "Capturing", snapshot |-> None, baseline |-> None,
                     activated |-> FALSE, published |-> FALSE]],
               CancelCommands(c) \o
               <<[type |-> "PrepareTarget", id |-> id, token |-> token,
                  session |-> c.sessions[target]],
                 [type |-> "CaptureSource", id |-> id, token |-> c.token,
                  session |-> source]>>)
        ELSE Result("none",
               [begun EXCEPT !.terminal =
                    [id |-> id,
                     outcome |-> IF c.enabled THEN "CapabilityMissing" ELSE "Canceled"]],
               CancelCommands(c))

(* The handoff under way is fenced by its tokens. *)
Fenced(c) ==
    LET h == c.active IN
    h # None =>
        IF h.activated THEN h.target_token = c.token
        ELSE h.source_token = c.token /\ c.pending = [id |-> h.id, token |-> h.target_token]

IsActive(c, id) == c.active # None /\ c.active.id = id

(* publish_if_ready: once, when the snapshot and the target's baseline are there. *)
PublishIfReady(c) ==
    LET h == c.active IN
    IF h.published \/ h.snapshot = None \/ h.baseline = None THEN Stale(c, "none")
    ELSE Result("none", [c EXCEPT !.active.published = TRUE, !.active.phase = "InFlight"],
                <<[type |-> "PublishSnapshot", id |-> h.id, snapshot |-> h.snapshot]>>)

TargetPrepared(c, id, token, session, baseline) ==
    IF ~IsActive(c, id) THEN Stale(c, "StaleHandoff")
    ELSE IF c.active.target_token # token THEN Stale(c, "StaleOwnerToken")
    ELSE IF c.active.target_session # session THEN Stale(c, "StaleProcessSession")
    ELSE PublishIfReady([c EXCEPT !.active.baseline = baseline])

SourceCaptured(c, id, token, session, snapshot, oversize) ==
    IF oversize THEN Stale(c, "InvalidSnapshot")
    ELSE IF ~IsActive(c, id) THEN Stale(c, "StaleHandoff")
    ELSE IF c.active.source_token # token THEN Stale(c, "StaleOwnerToken")
    ELSE IF c.active.source_session # session \/ snapshot.session # session
    THEN Stale(c, "StaleProcessSession")
    ELSE PublishIfReady([c EXCEPT !.active.snapshot = snapshot, !.active.phase = "Ready"])

(* Mutant of OwnershipActivated: only the handoff is compared, not the token. *)
ActivateAnyToken(c, id, token, session) ==
    LET moved == [c EXCEPT !.pending = None, !.token = token]
    IN  IF c.pending = None \/ c.pending.id # id THEN Stale(c, "StaleHandoff")
        ELSE Stale([CancelActive(moved) EXCEPT !.terminal = None], "none")

(* The pending token becomes the current one, with or without a transfer. *)
OwnershipActivated(c, id, token, session) ==
    LET moved == [c EXCEPT !.pending = None, !.token = token]
        done == [moved EXCEPT !.active.activated = TRUE]
        publish == PublishIfReady(done)
    IN  IF c.pending = None \/ c.pending.id # id THEN Stale(c, "StaleHandoff")
        ELSE IF c.pending.token # token THEN Stale(c, "StaleOwnerToken")
        ELSE IF c.active = None THEN Stale(moved, "none")
        ELSE IF c.active.id # id THEN Stale(moved, "StaleHandoff")
        ELSE IF c.active.target_token # token THEN Stale(moved, "StaleOwnerToken")
        ELSE IF c.active.target_session # session THEN Stale(moved, "StaleProcessSession")
        ELSE Result("none", publish.next,
                    <<[type |-> "ActivateTarget", id |-> id, token |-> token,
                       session |-> session]>> \o publish.cmds)

SnapshotStaged(c, id) ==
    IF IsActive(c, id) THEN Stale([c EXCEPT !.active.phase = "Staged"], "none")
    ELSE Stale(c, "StaleHandoff")

Applied(c, id, snapshot) ==
    IF ~IsActive(c, id) THEN Stale(c, "StaleHandoff")
    ELSE IF ~c.active.activated \/ c.active.snapshot # snapshot THEN Stale(c, "InvalidSnapshot")
    ELSE Stale(End(c, "Applied"), "none")

Skip(c, id, reason) ==
    IF IsActive(c, id) THEN Stale(End(c, reason), "none") ELSE Stale(c, "StaleHandoff")

(* Mutant of Abort: the transfer goes on. *)
AbortOwnershipOnly(c, id) ==
    IF c.pending = None \/ c.pending.id # id THEN Stale(c, "StaleHandoff")
    ELSE Stale([c EXCEPT !.pending = None], "none")

Abort(c, id) ==
    IF c.pending = None \/ c.pending.id # id THEN Stale(c, "StaleHandoff")
    ELSE Cancelled([c EXCEPT !.pending = None])
================================================================================
