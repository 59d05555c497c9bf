--------------------------- MODULE CoordinatorSpec ---------------------------
(***************************************************************************)
(* The clipboard coordinator alone, called with anything a runtime could    *)
(* pass it, in any order: every identity, token, session and snapshot, of   *)
(* this handoff, an old one or none.                                        *)
(***************************************************************************)
EXTENDS ClipboardCoordinator

CONSTANTS
    Server, Hosts,
    Sessions,       \* process sessions
    Snapshots,      \* snapshots a source may report
    Baselines,      \* generations a target may report
    Authority,      \* the authority session
    MaxHandoffs     \* bound on the handoffs of a behaviour

VARIABLE c

Epochs == 0..MaxHandoffs
Ids == [auth : {Authority}, epoch : Epochs]
Tokens == [auth : {Authority}, epoch : Epochs, owner : Hosts]

Init ==
    \E s \in Sessions :
        c = NewCoordinator(Authority, Server, s, [h \in Hosts |-> None])

(* A method and what it leaves; the result's commands go to the runtime. *)
Call(k) == c' = k.next

Connected(h, s) == Call(SetProcessSession(c, h, s))
Disconnected(h) == Call(RemoveProcessSession(c, h))
Configured(enabled) == Call(SetEnabled(c, enabled))
Began(h) == c.next_handoff < MaxHandoffs /\ Call(BeginHandoff(c, h))
Prepared(id, t, s, b) == Call(TargetPrepared(c, id, t, s, b))
Captured(id, t, s, x, oversize) == Call(SourceCaptured(c, id, t, s, x, oversize))

(* The runtime passes the session it read from the handoff when it began. *)
Activated(id, t, s) ==
    /\ c.active # None => s = c.active.target_session
    /\ Call(OwnershipActivated(c, id, t, s))

Staged(id) == Call(SnapshotStaged(c, id))
AppliedAt(id, x) == Call(Applied(c, id, x))
SkippedFor(id, reason) == Call(Skip(c, id, reason))
Aborted(id) == Call(Abort(c, id))

Next ==
    \/ \E h \in Hosts, s \in Sessions : Connected(h, s)
    \/ \E h \in Hosts : Disconnected(h)
    \/ \E e \in BOOLEAN : Configured(e)
    \/ \E h \in Hosts : Began(h)
    \/ \E id \in Ids, t \in Tokens, s \in Sessions, b \in Baselines : Prepared(id, t, s, b)
    \/ \E id \in Ids, t \in Tokens, s \in Sessions, x \in Snapshots, o \in BOOLEAN :
            Captured(id, t, s, x, o)
    \/ \E id \in Ids, t \in Tokens, s \in Sessions : Activated(id, t, s)
    \/ \E id \in Ids : Staged(id)
    \/ \E id \in Ids, x \in Snapshots : AppliedAt(id, x)
    \/ \E id \in Ids, reason \in {"Skipped"} : SkippedFor(id, reason)
    \/ \E id \in Ids : Aborted(id)

Spec == Init /\ [][Next]_c

-----------------------------------------------------------------------------
Handoffs ==
    [id : Ids, source_token : Tokens, source_session : Sessions,
     target_token : Tokens, target_session : Sessions,
     phase : {"Capturing", "Ready", "InFlight", "Staged"},
     snapshot : Snapshots \cup {None}, baseline : Baselines \cup {None},
     activated : BOOLEAN, published : BOOLEAN]

Outcomes == {"Applied", "Canceled", "CapabilityMissing", "Skipped"}

Coordinators ==
    [enabled : BOOLEAN, auth : {Authority}, token : Tokens,
     next_ownership : Epochs, next_handoff : Epochs,
     sessions : [Hosts -> Sessions \cup {None}],
     pending : [id : Ids, token : Tokens] \cup {None},
     active : Handoffs \cup {None},
     terminal : [id : Ids, outcome : Outcomes] \cup {None}]

ASSUME ConstantsAssumption ==
    /\ Server \in Hosts /\ MaxHandoffs \in Nat
    /\ None \notin Sessions

(* None is no record. *)
ASSUME NoneAssumption ==
    /\ None \notin Handoffs
    /\ None \notin [id : Ids, token : Tokens]

(* Epochs are allocated in step, and a pending token is newer than the current one. *)
Ordered ==
    /\ c.next_ownership = c.next_handoff
    /\ c.token.epoch <= c.next_ownership
    /\ c.pending # None =>
        /\ c.pending.id.epoch = c.pending.token.epoch
        /\ c.token.epoch < c.pending.token.epoch
        /\ c.pending.token.epoch <= c.next_ownership
    /\ c.active # None =>
        /\ c.active.id.epoch = c.active.target_token.epoch
        /\ c.active.source_token.epoch < c.active.target_token.epoch
        /\ c.active.activated => c.pending = None

(* Whatever is reported late, twice or about another handoff, the handoff under way is  *)
(* the pending one and starts from the current token, or, once activated, has made its  *)
(* target's token the current one (begin_handoff, ownership_activated, abort).          *)
CoordinatorFenced == Fenced(c)

(* The token only ever moves forward, to one that has never been current before        *)
(* (ownership_activated; epochs are not reused, also after an abort).                  *)
TokenAdvances == [][c'.token # c.token => c'.token.epoch > c.token.epoch]_c
=============================================================================
