-------------------------- MODULE CoordinatorProofs --------------------------
(***************************************************************************)
(* CoordinatorSpec keeps its handoff fenced and its token moving forward,    *)
(* for every set of hosts, sessions, snapshots and generations and any       *)
(* number of handoffs.                                                       *)
(***************************************************************************)
EXTENDS CoordinatorSpec, TLAPS

Invariant == c \in Coordinators /\ Ordered /\ CoordinatorFenced

(* The first state of Coordinator::new satisfies the invariant. *)
LEMMA InitInvariant == Init => Invariant
<1>. SUFFICES ASSUME NEW s \in Sessions,
                     c = NewCoordinator(Authority, Server, s, [h \in Hosts |-> None])
              PROVE  Invariant
  BY DEF Init
<1>1. c \in Coordinators
  BY ConstantsAssumption, NoneAssumption
  DEF NewCoordinator, Coordinators, Tokens, Ids, Epochs
<1>2. Ordered /\ CoordinatorFenced
  BY ConstantsAssumption DEF NewCoordinator, Ordered, CoordinatorFenced, Fenced
<1>. QED BY <1>1, <1>2 DEF Invariant

(* What a coordinator that ends its handoff must satisfy: the rest is as before. *)
LEMMA EndedInvariant ==
    ASSUME Invariant, NEW d \in Coordinators, d.active = None,
           d.token = c.token, d.pending \in {c.pending, None},
           d.next_ownership = c.next_ownership, d.next_handoff = c.next_handoff,
           c' = d
    PROVE  Invariant'
  BY DEF Invariant, Ordered, CoordinatorFenced, Fenced

(* cancel clears the handoff and records its end. *)
LEMMA CancelActiveType ==
    ASSUME NEW d \in Coordinators
    PROVE  /\ CancelActive(d) \in Coordinators
           /\ CancelActive(d).active = None
           /\ CancelActive(d).token = d.token
           /\ CancelActive(d).pending = d.pending
           /\ CancelActive(d).next_ownership = d.next_ownership
           /\ CancelActive(d).next_handoff = d.next_handoff
           /\ CancelActive(d).sessions = d.sessions
           /\ CancelActive(d).enabled = d.enabled
           /\ CancelActive(d).auth = d.auth
<1>1. CASE d.active = None
  BY <1>1 DEF CancelActive
<1>2. CASE d.active # None
  <2>1. d.active.id \in Ids
    BY <1>2 DEF Coordinators, Handoffs
  <2>. QED BY ZenonT(60), <1>2, <2>1, NoneAssumption DEF CancelActive, End, Coordinators, Outcomes
<1>. QED BY <1>1, <1>2

(* A call that leaves the handoff, the tokens and the epochs alone keeps the invariant. *)
LEMMA SameInvariant ==
    ASSUME Invariant, NEW d \in Coordinators, d.active = c.active,
           d.token = c.token, d.pending = c.pending,
           d.next_ownership = c.next_ownership, d.next_handoff = c.next_handoff,
           c' = d
    PROVE  Invariant'
  BY DEF Invariant, Ordered, CoordinatorFenced, Fenced

(* So does one that changes only what the handoff has reached. *)
LEMMA ProgressInvariant ==
    ASSUME Invariant, NEW d \in Coordinators,
           c.active # None, d.active # None,
           d.active.id = c.active.id,
           d.active.source_token = c.active.source_token,
           d.active.target_token = c.active.target_token,
           d.active.activated = c.active.activated,
           d.token = c.token, d.pending = c.pending,
           d.next_ownership = c.next_ownership, d.next_handoff = c.next_handoff,
           c' = d
    PROVE  Invariant'
  BY DEF Invariant, Ordered, CoordinatorFenced, Fenced

(* set_process_session ends a handoff of another session of the host. *)
LEMMA ConnectedKeeps ==
    ASSUME Invariant, NEW h \in Hosts, NEW s \in Sessions, Connected(h, s)
    PROVE  Invariant'
<1>. DEFINE known == [c EXCEPT !.sessions[h] = s]
<1>1. c \in Coordinators
  BY DEF Invariant
<1>2. /\ known \in Coordinators /\ known.active = c.active /\ known.token = c.token
      /\ known.pending = c.pending /\ known.next_ownership = c.next_ownership
      /\ known.next_handoff = c.next_handoff
  BY <1>1 DEF Coordinators
<1>. HIDE DEF known
<1>3. c' \in {known, CancelActive(known)}
  BY DEF Connected, Call, SetProcessSession, Cancelled, Stale, Result, known
<1>4. CASE c' = known
  BY <1>2, <1>4, SameInvariant
<1>5. CASE c' = CancelActive(known)
  BY <1>2, <1>5, CancelActiveType, EndedInvariant
<1>. QED BY <1>3, <1>4, <1>5

(* remove_process_session ends a handoff of the host. *)
LEMMA DisconnectedKeeps ==
    ASSUME Invariant, NEW h \in Hosts, Disconnected(h)
    PROVE  Invariant'
<1>. DEFINE gone == [c EXCEPT !.sessions[h] = None]
<1>1. c \in Coordinators
  BY DEF Invariant
<1>2. /\ gone \in Coordinators /\ gone.active = c.active /\ gone.token = c.token
      /\ gone.pending = c.pending /\ gone.next_ownership = c.next_ownership
      /\ gone.next_handoff = c.next_handoff
  BY <1>1 DEF Coordinators
<1>. HIDE DEF gone
<1>3. c' \in {gone, CancelActive(gone)}
  BY DEF Disconnected, Call, RemoveProcessSession, Cancelled, Stale, Result, gone
<1>4. CASE c' = gone
  BY <1>2, <1>4, SameInvariant
<1>5. CASE c' = CancelActive(gone)
  BY <1>2, <1>5, CancelActiveType, EndedInvariant
<1>. QED BY <1>3, <1>4, <1>5

(* set_enabled ends the handoff when it disables. *)
LEMMA ConfiguredKeeps ==
    ASSUME Invariant, NEW e \in BOOLEAN, Configured(e)
    PROVE  Invariant'
<1>. DEFINE set == [c EXCEPT !.enabled = e]
<1>1. c \in Coordinators
  BY DEF Invariant
<1>2. /\ set \in Coordinators /\ set.active = c.active /\ set.token = c.token
      /\ set.pending = c.pending /\ set.next_ownership = c.next_ownership
      /\ set.next_handoff = c.next_handoff
  BY <1>1 DEF Coordinators
<1>. HIDE DEF set
<1>3. c' \in {set, CancelActive(set)}
  BY DEF Configured, Call, SetEnabled, Cancelled, Stale, Result, set
<1>4. CASE c' = set
  BY <1>2, <1>4, SameInvariant
<1>5. CASE c' = CancelActive(set)
  BY <1>2, <1>5, CancelActiveType, EndedInvariant
<1>. QED BY <1>3, <1>4, <1>5

(* publish_if_ready changes only the phase and the published flag. *)
LEMMA PublishType ==
    ASSUME NEW d \in Coordinators, d.active # None
    PROVE  /\ PublishIfReady(d).next \in Coordinators
           /\ PublishIfReady(d).next.active # None
           /\ PublishIfReady(d).next.active.id = d.active.id
           /\ PublishIfReady(d).next.active.source_token = d.active.source_token
           /\ PublishIfReady(d).next.active.target_token = d.active.target_token
           /\ PublishIfReady(d).next.active.activated = d.active.activated
           /\ PublishIfReady(d).next.token = d.token
           /\ PublishIfReady(d).next.pending = d.pending
           /\ PublishIfReady(d).next.next_ownership = d.next_ownership
           /\ PublishIfReady(d).next.next_handoff = d.next_handoff
<1>. DEFINE h == [d.active EXCEPT !.published = TRUE, !.phase = "InFlight"]
            e == [d EXCEPT !.active = h]
<1>1. d.active \in Handoffs
  BY DEF Coordinators
<1>2. /\ h \in Handoffs /\ h.id = d.active.id /\ h.source_token = d.active.source_token
      /\ h.target_token = d.active.target_token /\ h.activated = d.active.activated
  BY ZenonT(60), <1>1 DEF Handoffs
<1>. HIDE DEF h
<1>3. /\ e \in Coordinators /\ e.active = h /\ e.token = d.token /\ e.pending = d.pending
      /\ e.next_ownership = d.next_ownership /\ e.next_handoff = d.next_handoff
  BY <1>2 DEF Coordinators
<1>4. h # None
  BY <1>2, NoneAssumption
<1>5. PublishIfReady(d).next \in {d, e}
  <2>1. [d EXCEPT !.active.published = TRUE, !.active.phase = "InFlight"] = e
    BY ZenonT(60), <1>1 DEF e, h, Coordinators, Handoffs
  <2>. QED BY <2>1 DEF PublishIfReady, Stale, Result
<1>. QED BY ZenonT(60), <1>2, <1>3, <1>4, <1>5

(* A handoff with another baseline, snapshot or phase is the same handoff. *)
LEMMA HandoffProgress ==
    ASSUME NEW d \in Coordinators, d.active # None, NEW h \in Handoffs,
           h.id = d.active.id, h.source_token = d.active.source_token,
           h.target_token = d.active.target_token, h.activated = d.active.activated
    PROVE  LET e == [d EXCEPT !.active = h]
           IN  /\ e \in Coordinators /\ e.active # None
               /\ e.active.id = d.active.id
               /\ e.active.source_token = d.active.source_token
               /\ e.active.target_token = d.active.target_token
               /\ e.active.activated = d.active.activated
               /\ e.token = d.token /\ e.pending = d.pending
               /\ e.next_ownership = d.next_ownership /\ e.next_handoff = d.next_handoff
  BY NoneAssumption DEF Coordinators

(* target_prepared records the baseline of the handoff it names, or nothing. *)
LEMMA PreparedKeeps ==
    ASSUME Invariant, NEW id \in Ids, NEW t \in Tokens, NEW s \in Sessions,
           NEW b \in Baselines, Prepared(id, t, s, b)
    PROVE  Invariant'
<1>. DEFINE h == [c.active EXCEPT !.baseline = b]
            e == [c EXCEPT !.active = h]
<1>1. c \in Coordinators
  BY DEF Invariant
<1>2. CASE c' = c
  BY <1>1, <1>2, SameInvariant
<1>3. CASE c.active # None /\ c' = PublishIfReady(e).next
  <2>1. c.active \in Handoffs
    BY <1>1, <1>3 DEF Coordinators
  <2>2. /\ h \in Handoffs /\ h.id = c.active.id /\ h.source_token = c.active.source_token
        /\ h.target_token = c.active.target_token /\ h.activated = c.active.activated
    BY <2>1 DEF Handoffs
  <2>. HIDE DEF h
  <2>3. /\ e \in Coordinators /\ e.active # None
        /\ e.active.id = c.active.id
        /\ e.active.source_token = c.active.source_token
        /\ e.active.target_token = c.active.target_token
        /\ e.active.activated = c.active.activated
        /\ e.token = c.token /\ e.pending = c.pending
        /\ e.next_ownership = c.next_ownership /\ e.next_handoff = c.next_handoff
    BY <1>1, <1>3, <2>2, HandoffProgress
  <2>. HIDE DEF e
  <2>. QED BY <1>3, <2>3, PublishType, ProgressInvariant
<1>4. c' = c \/ (c.active # None /\ c' = PublishIfReady(e).next)
  <2>1. [c EXCEPT !.active.baseline = b] = e
    BY <1>1 DEF e, h, Coordinators
  <2>. QED BY <2>1 DEF Prepared, Call, TargetPrepared, Stale, Result, IsActive
<1>. QED BY <1>2, <1>3, <1>4

(* source_captured records the snapshot of the handoff it names, or nothing. *)
LEMMA CapturedKeeps ==
    ASSUME Invariant, NEW id \in Ids, NEW t \in Tokens, NEW s \in Sessions,
           NEW x \in Snapshots, NEW o \in BOOLEAN, Captured(id, t, s, x, o)
    PROVE  Invariant'
<1>. DEFINE h == [c.active EXCEPT !.snapshot = x, !.phase = "Ready"]
            e == [c EXCEPT !.active = h]
<1>1. c \in Coordinators
  BY DEF Invariant
<1>2. CASE c' = c
  BY <1>1, <1>2, SameInvariant
<1>3. CASE c.active # None /\ c' = PublishIfReady(e).next
  <2>1. c.active \in Handoffs
    BY <1>1, <1>3 DEF Coordinators
  <2>2. /\ h \in Handoffs /\ h.id = c.active.id /\ h.source_token = c.active.source_token
        /\ h.target_token = c.active.target_token /\ h.activated = c.active.activated
    BY ZenonT(60), <2>1 DEF Handoffs
  <2>. HIDE DEF h
  <2>3. /\ e \in Coordinators /\ e.active # None
        /\ e.active.id = c.active.id
        /\ e.active.source_token = c.active.source_token
        /\ e.active.target_token = c.active.target_token
        /\ e.active.activated = c.active.activated
        /\ e.token = c.token /\ e.pending = c.pending
        /\ e.next_ownership = c.next_ownership /\ e.next_handoff = c.next_handoff
    BY <1>1, <1>3, <2>2, HandoffProgress
  <2>. HIDE DEF e
  <2>. QED BY <1>3, <2>3, PublishType, ProgressInvariant
<1>4. c' = c \/ (c.active # None /\ c' = PublishIfReady(e).next)
  <2>1. [c EXCEPT !.active.snapshot = x, !.active.phase = "Ready"] = e
    BY ZenonT(60), <1>1 DEF e, h, Coordinators
  <2>. QED BY <2>1 DEF Captured, Call, SourceCaptured, Stale, Result, IsActive
<1>. QED BY <1>2, <1>3, <1>4

(* snapshot_staged changes the phase of the handoff it names. *)
LEMMA StagedKeeps ==
    ASSUME Invariant, NEW id \in Ids, Staged(id)
    PROVE  Invariant'
<1>. DEFINE h == [c.active EXCEPT !.phase = "Staged"]
            e == [c EXCEPT !.active = h]
<1>1. c \in Coordinators
  BY DEF Invariant
<1>2. CASE c' = c
  BY <1>1, <1>2, SameInvariant
<1>3. CASE c.active # None /\ c' = e
  <2>1. c.active \in Handoffs
    BY <1>1, <1>3 DEF Coordinators
  <2>2. /\ h \in Handoffs /\ h.id = c.active.id /\ h.source_token = c.active.source_token
        /\ h.target_token = c.active.target_token /\ h.activated = c.active.activated
    BY <2>1 DEF Handoffs
  <2>. HIDE DEF h
  <2>. QED BY ZenonT(60), <1>1, <1>3, <2>2, HandoffProgress, ProgressInvariant
<1>4. c' = c \/ (c.active # None /\ c' = e)
  <2>1. [c EXCEPT !.active.phase = "Staged"] = e
    BY <1>1 DEF e, h, Coordinators
  <2>. QED BY <2>1 DEF Staged, Call, SnapshotStaged, Stale, Result, IsActive
<1>. QED BY <1>2, <1>3, <1>4

(* applied and skip end the handoff they name. *)
LEMMA EndKeeps ==
    ASSUME Invariant, NEW outcome \in Outcomes, c.active # None, c' = End(c, outcome)
    PROVE  Invariant'
<1>1. c \in Coordinators /\ c.active.id \in Ids
  BY DEF Invariant, Coordinators, Handoffs
<1>2. /\ End(c, outcome) \in Coordinators /\ End(c, outcome).active = None
      /\ End(c, outcome).token = c.token /\ End(c, outcome).pending = c.pending
      /\ End(c, outcome).next_ownership = c.next_ownership
      /\ End(c, outcome).next_handoff = c.next_handoff
  BY ZenonT(60), <1>1 DEF End, Coordinators
<1>. QED BY <1>2, EndedInvariant

(* applied ends only an activated handoff, with its own snapshot. *)
LEMMA AppliedKeeps ==
    ASSUME Invariant, NEW id \in Ids, NEW x \in Snapshots, AppliedAt(id, x)
    PROVE  Invariant'
<1>1. c' = c \/ (c.active # None /\ c' = End(c, "Applied"))
  BY DEF AppliedAt, Call, Applied, Stale, Result, IsActive
<1>2. CASE c' = c
  BY <1>2, SameInvariant DEF Invariant
<1>3. CASE c.active # None /\ c' = End(c, "Applied")
  BY <1>3, EndKeeps DEF Outcomes
<1>. QED BY <1>1, <1>2, <1>3

(* skip ends the handoff it names. *)
LEMMA SkippedKeeps ==
    ASSUME Invariant, NEW id \in Ids, SkippedFor(id, "Skipped")
    PROVE  Invariant'
<1>1. c' = c \/ (c.active # None /\ c' = End(c, "Skipped"))
  BY DEF SkippedFor, Call, Skip, Stale, Result, IsActive
<1>2. CASE c' = c
  BY <1>2, SameInvariant DEF Invariant
<1>3. CASE c.active # None /\ c' = End(c, "Skipped")
  BY <1>3, EndKeeps DEF Outcomes
<1>. QED BY <1>1, <1>2, <1>3

(* abort forgets the pending token and ends the handoff. *)
LEMMA AbortedKeeps ==
    ASSUME Invariant, NEW id \in Ids, Aborted(id)
    PROVE  Invariant'
<1>. DEFINE d == [c EXCEPT !.pending = None]
<1>1. c \in Coordinators
  BY DEF Invariant
<1>2. /\ d \in Coordinators /\ d.pending = None /\ d.token = c.token
      /\ d.next_ownership = c.next_ownership /\ d.next_handoff = c.next_handoff
  BY <1>1 DEF Coordinators
<1>. HIDE DEF d
<1>3. c' \in {c, CancelActive(d)}
  BY DEF Aborted, Call, Abort, Cancelled, Stale, Result, d
<1>4. CASE c' = c
  BY <1>1, <1>4, SameInvariant
<1>5. CASE c' = CancelActive(d)
  BY <1>2, <1>5, CancelActiveType, EndedInvariant
<1>. QED BY <1>3, <1>4, <1>5

(* ownership_activated: the handoff under way is the pending one, so the three checks  *)
(* after the move of the token cannot fail and leave it behind.                        *)
LEMMA ActivatedKeeps ==
    ASSUME Invariant, NEW id \in Ids, NEW t \in Tokens, NEW s \in Sessions, Activated(id, t, s)
    PROVE  Invariant'
<1>. DEFINE moved == [c EXCEPT !.pending = None, !.token = t]
            h == [c.active EXCEPT !.activated = TRUE]
            done == [moved EXCEPT !.active = h]
            current == c.pending # None /\ c.pending.id = id /\ c.pending.token = t
<1>1. c \in Coordinators /\ Ordered /\ CoordinatorFenced
  BY DEF Invariant
<1>2. CASE ~current
  <2>1. c' = c
    BY <1>2 DEF Activated, Call, OwnershipActivated, Stale, Result
  <2>. QED BY <1>1, <2>1, SameInvariant
<1>3. ASSUME current PROVE
      /\ moved \in Coordinators /\ moved.pending = None /\ moved.token = t
      /\ moved.active = c.active
      /\ moved.next_ownership = c.next_ownership /\ moved.next_handoff = c.next_handoff
      /\ t.epoch <= c.next_ownership
  BY ZenonT(60), <1>1, <1>3 DEF Coordinators, Ordered
<1>4. CASE current /\ c.active = None
  <2>1. c' = moved
    BY <1>4 DEF Activated, Call, OwnershipActivated, Stale, Result
  <2>. HIDE DEF moved
  <2>. QED BY <1>1, <1>3, <1>4, <2>1 DEF Invariant, Ordered, CoordinatorFenced, Fenced
<1>5. CASE current /\ c.active # None
  <2>1. c.active \in Handoffs
    BY <1>1, <1>5 DEF Coordinators
  <2>2. c.active.id = id /\ c.active.target_token = t /\ c.active.target_session = s
    BY <1>1, <1>5 DEF Ordered, CoordinatorFenced, Fenced, Activated
  <2>3. /\ h \in Handoffs /\ h.id = id /\ h.target_token = t /\ h.activated = TRUE
        /\ h.source_token = c.active.source_token
    BY ZenonT(60), <2>1, <2>2 DEF Handoffs
  <2>4. [moved EXCEPT !.active.activated = TRUE] = done
    BY <1>1, <1>3, <1>5 DEF Coordinators
  <2>5. c' = PublishIfReady(done).next
    BY <1>5, <2>2, <2>4 DEF Activated, Call, OwnershipActivated, Result
  <2>. HIDE DEF h, moved
  <2>6. /\ done \in Coordinators /\ done.active = h /\ done.active # None
        /\ done.token = t /\ done.pending = None
        /\ done.next_ownership = c.next_ownership /\ done.next_handoff = c.next_handoff
    BY <1>3, <1>5, <2>3, NoneAssumption DEF Coordinators
  <2>. HIDE DEF done
  <2>. DEFINE n == PublishIfReady(done).next
  <2>7. /\ n \in Coordinators /\ n.active # None /\ n.active.id = id
        /\ n.active.target_token = t /\ n.active.activated = TRUE
        /\ n.active.source_token = c.active.source_token
        /\ n.token = t /\ n.pending = None
        /\ n.next_ownership = c.next_ownership /\ n.next_handoff = c.next_handoff
    BY <2>3, <2>6, PublishType
  <2>. HIDE DEF n
  <2>8. c' = n
    BY <2>5 DEF n
  <2>. QED BY <1>1, <1>3, <1>5, <2>2, <2>7, <2>8
           DEF Invariant, Ordered, CoordinatorFenced, Fenced
<1>. QED BY <1>2, <1>4, <1>5

(* begin_handoff: new epochs, newer than every token that was ever current. *)
LEMMA BeganKeeps ==
    ASSUME Invariant, NEW target \in Hosts, Began(target)
    PROVE  Invariant'
<1>. DEFINE id == HandoffId(c, c.next_handoff + 1)
            token == [auth |-> c.auth, epoch |-> c.next_ownership + 1, owner |-> target]
            source == c.sessions[c.token.owner]
            base == CancelActive(c)
            begun == [base EXCEPT !.next_ownership = @ + 1, !.next_handoff = @ + 1,
                                  !.pending = [id |-> id, token |-> token]]
            h == [id |-> id, source_token |-> c.token, source_session |-> source,
                  target_token |-> token, target_session |-> c.sessions[target],
                  phase |-> "Capturing", snapshot |-> None, baseline |-> None,
                  activated |-> FALSE, published |-> FALSE]
            with == [begun EXCEPT !.active = h]
            ended(o) == [begun EXCEPT !.terminal = [id |-> id, outcome |-> o]]
<1>1. c \in Coordinators /\ Ordered /\ CoordinatorFenced /\ c.next_handoff < MaxHandoffs
  BY DEF Invariant, Began
<1>2. c.next_ownership + 1 \in Epochs /\ c.next_handoff + 1 = c.next_ownership + 1
  BY <1>1, ConstantsAssumption DEF Coordinators, Epochs, Ordered
<1>3. /\ id \in Ids /\ token \in Tokens /\ id.epoch = c.next_ownership + 1
      /\ token.epoch = c.next_ownership + 1 /\ c.token \in Tokens
      /\ c.token.epoch < token.epoch
  <2>1. c.auth \in {Authority} /\ c.token \in Tokens /\ c.token.epoch \in Nat
        /\ c.next_ownership \in Nat
    BY <1>1 DEF Coordinators, Tokens, Epochs
  <2>2. c.token.epoch <= c.next_ownership
    BY <1>1 DEF Ordered
  <2>. QED BY <1>2, <2>1, <2>2 DEF HandoffId, Ids, Tokens
<1>4. /\ base \in Coordinators /\ base.active = None /\ base.token = c.token
      /\ base.next_ownership = c.next_ownership /\ base.next_handoff = c.next_handoff
  BY <1>1, CancelActiveType
<1>. HIDE DEF id, token, base
<1>5. /\ begun \in Coordinators /\ begun.active = None /\ begun.token = c.token
      /\ begun.pending = [id |-> id, token |-> token]
      /\ begun.next_ownership = c.next_ownership + 1
      /\ begun.next_handoff = c.next_handoff + 1
  BY ZenonT(60), <1>2, <1>3, <1>4 DEF Coordinators
<1>. HIDE DEF begun
<1>6. \/ c' = c
      \/ source # None /\ c.sessions[target] # None /\ c' = with
      \/ \E o \in {"CapabilityMissing", "Canceled"} : c' = ended(o)
  BY ZenonT(60) DEF Began, Call, BeginHandoff, Stale, Result, id, token, base, begun
<1>7. CASE c' = c
  BY <1>1, <1>7, SameInvariant
<1>8. CASE source # None /\ c.sessions[target] # None /\ c' = with
  <2>1. source \in Sessions /\ c.sessions[target] \in Sessions
    BY <1>1, <1>3, <1>8 DEF Coordinators, Tokens
  <2>. HIDE DEF source
  <2>2. /\ h \in Handoffs /\ h.id = id /\ h.source_token = c.token
        /\ h.target_token = token /\ h.activated = FALSE
    BY <1>3, <2>1 DEF Handoffs
  <2>. HIDE DEF h
  <2>3. /\ with \in Coordinators /\ with.active = h /\ with.token = c.token
        /\ with.pending = [id |-> id, token |-> token]
        /\ with.next_ownership = c.next_ownership + 1
        /\ with.next_handoff = c.next_handoff + 1
    BY <1>5, <2>2 DEF Coordinators
  <2>. HIDE DEF with
  <2>4. c.next_ownership \in Nat /\ c.token.epoch \in Nat /\ token.epoch \in Nat
    BY <1>1, <1>3 DEF Coordinators, Tokens, Epochs
  <2>5. c' = with
    BY <1>8
  <2>6. Fenced(c)'
    BY <2>2, <2>3, <2>5 DEF Fenced
  <2>7. Ordered'
    BY <1>1, <1>2, <1>3, <2>2, <2>3, <2>4, <2>5, SMTT(40) DEF Ordered
  <2>. QED BY <2>3, <2>5, <2>6, <2>7 DEF Invariant, CoordinatorFenced
<1>9. ASSUME NEW o \in {"CapabilityMissing", "Canceled"}, c' = ended(o) PROVE Invariant'
  <2>1. /\ ended(o) \in Coordinators /\ ended(o).active = None /\ ended(o).token = c.token
        /\ ended(o).pending = [id |-> id, token |-> token]
        /\ ended(o).next_ownership = c.next_ownership + 1
        /\ ended(o).next_handoff = c.next_handoff + 1
    BY <1>3, <1>5 DEF Coordinators, Outcomes
  <2>. HIDE DEF ended
  <2>2. c.next_ownership \in Nat /\ c.token.epoch \in Nat /\ token.epoch \in Nat
    BY <1>1, <1>3 DEF Coordinators, Tokens, Epochs
  <2>3. c' = ended(o)
    BY <1>9
  <2>4. Fenced(c)'
    BY <2>1, <2>3 DEF Fenced
  <2>5. Ordered'
    BY <1>1, <1>2, <1>3, <2>1, <2>2, <2>3, SMTT(40) DEF Ordered
  <2>. QED BY <2>1, <2>3, <2>4, <2>5 DEF Invariant, CoordinatorFenced
<1>. QED BY <1>6, <1>7, <1>8, <1>9

(* Every call of the coordinator keeps the invariant. *)
LEMMA NextInvariant == Invariant /\ [Next]_c => Invariant'
<1>. SUFFICES ASSUME Invariant, [Next]_c PROVE Invariant'
  OBVIOUS
<1>1. CASE UNCHANGED c
  BY SMTT(40), <1>1, SameInvariant DEF Invariant
<1>2. CASE Next
  BY <1>2, ConnectedKeeps, DisconnectedKeeps, ConfiguredKeeps, BeganKeeps, PreparedKeeps,
     CapturedKeeps, ActivatedKeeps, StagedKeeps, AppliedKeeps, SkippedKeeps, AbortedKeeps
  DEF Next
<1>. QED BY <1>1, <1>2

(* Whatever reports come late, twice or for another handoff, the handoff under way is  *)
(* the pending one, or the one that made its target the owner (coordinator.rs).        *)
THEOREM CoordinatorIsFenced == Spec => []CoordinatorFenced
<1>1. Invariant => CoordinatorFenced
  BY DEF Invariant
<1>. QED BY <1>1, InitInvariant, NextInvariant, PTL DEF Spec

(* Only ownership_activated moves the token, and only to the pending one. *)
LEMMA TokenStep ==
    ASSUME Invariant, [Next]_c
    PROVE  c'.token = c.token \/ c'.token.epoch > c.token.epoch
<1>1. c \in Coordinators
  BY DEF Invariant
<1>2. ASSUME NEW d \in Coordinators, d.token = c.token PROVE CancelActive(d).token = c.token
  BY <1>2, CancelActiveType
<1>3. ASSUME NEW h \in Hosts, NEW s \in Sessions, Connected(h, s) PROVE c'.token = c.token
  <2>1. [c EXCEPT !.sessions[h] = s] \in Coordinators
        /\ [c EXCEPT !.sessions[h] = s].token = c.token
    BY <1>1 DEF Coordinators
  <2>. QED BY ZenonT(60), <1>2, <1>3, <2>1
          DEF Connected, Call, SetProcessSession, Cancelled, Stale, Result
<1>4. ASSUME NEW h \in Hosts, Disconnected(h) PROVE c'.token = c.token
  <2>1. [c EXCEPT !.sessions[h] = None] \in Coordinators
        /\ [c EXCEPT !.sessions[h] = None].token = c.token
    BY <1>1 DEF Coordinators
  <2>. QED BY ZenonT(60), <1>2, <1>4, <2>1
           DEF Disconnected, Call, RemoveProcessSession, Cancelled, Stale, Result
<1>5. ASSUME NEW e \in BOOLEAN, Configured(e) PROVE c'.token = c.token
  <2>1. [c EXCEPT !.enabled = e] \in Coordinators /\ [c EXCEPT !.enabled = e].token = c.token
    BY <1>1 DEF Coordinators
  <2>. QED BY ZenonT(60), <1>2, <1>5, <2>1
          DEF Configured, Call, SetEnabled, Cancelled, Stale, Result
<1>6. ASSUME NEW h \in Hosts, Began(h) PROVE c'.token = c.token
  <2>1. CancelActive(c) \in Coordinators /\ CancelActive(c).token = c.token
    BY <1>1, CancelActiveType
  <2>. QED BY <1>1, <1>6, <2>1 DEF Began, Call, BeginHandoff, Stale, Result, Coordinators
<1>7. ASSUME NEW d \in Coordinators, d.active # None, d.token = c.token
      PROVE  PublishIfReady(d).next.token = c.token
  BY <1>7, PublishType
<1>8. ASSUME NEW id \in Ids, NEW t \in Tokens, NEW s \in Sessions, NEW b \in Baselines,
             Prepared(id, t, s, b)
      PROVE  c'.token = c.token
  BY <1>1, <1>8 DEF Prepared, Call, TargetPrepared, PublishIfReady, Stale, Result, Coordinators
<1>9. ASSUME NEW id \in Ids, NEW t \in Tokens, NEW s \in Sessions, NEW x \in Snapshots,
             NEW o \in BOOLEAN, Captured(id, t, s, x, o)
      PROVE  c'.token = c.token
  BY <1>1, <1>9 DEF Captured, Call, SourceCaptured, PublishIfReady, Stale, Result, Coordinators
<1>10. ASSUME NEW id \in Ids, NEW t \in Tokens, NEW s \in Sessions, Activated(id, t, s)
       PROVE  c'.token = c.token \/ c'.token.epoch > c.token.epoch
  <2>1. CASE ~(c.pending # None /\ c.pending.id = id /\ c.pending.token = t)
    BY <1>10, <2>1 DEF Activated, Call, OwnershipActivated, Stale, Result
  <2>2. CASE c.pending # None /\ c.pending.id = id /\ c.pending.token = t
    <3>1. c'.token = t
      BY SMTT(40), <1>1, <1>10, <2>2
      DEF Activated, Call, OwnershipActivated, PublishIfReady, Stale, Result, Coordinators
    <3>2. t.epoch > c.token.epoch
      BY <1>1, <2>2 DEF Invariant, Ordered, Coordinators, Tokens, Epochs
    <3>. QED BY SMTT(40), <3>1, <3>2
  <2>. QED BY SMTT(40), <2>1, <2>2
<1>11. ASSUME NEW id \in Ids, Staged(id) PROVE c'.token = c.token
  BY <1>1, <1>11 DEF Staged, Call, SnapshotStaged, Stale, Result, Coordinators
<1>12. ASSUME NEW id \in Ids, NEW x \in Snapshots, AppliedAt(id, x) PROVE c'.token = c.token
  BY <1>1, <1>12 DEF AppliedAt, Call, Applied, End, Stale, Result, Coordinators
<1>13. ASSUME NEW id \in Ids, NEW reason, SkippedFor(id, reason) PROVE c'.token = c.token
  BY <1>1, <1>13 DEF SkippedFor, Call, Skip, End, Stale, Result, Coordinators
<1>14. ASSUME NEW id \in Ids, Aborted(id) PROVE c'.token = c.token
  <2>1. [c EXCEPT !.pending = None] \in Coordinators /\ [c EXCEPT !.pending = None].token = c.token
    BY <1>1 DEF Coordinators
  <2>. QED BY ZenonT(60), <1>2, <1>14, <2>1 DEF Aborted, Call, Abort, Cancelled, Stale, Result
<1>15. CASE UNCHANGED c
  BY <1>15
<1>16. CASE Next
  BY ZenonT(60), <1>16, <1>3, <1>4, <1>5, <1>6, <1>8, <1>9, <1>10, <1>11, <1>12, <1>13, <1>14 DEF Next
<1>. QED BY <1>15, <1>16

(* The owner token only moves forward, to one that was never current before, also after *)
(* aborted handoffs (ownership_activated).                                              *)
THEOREM OwnershipMovesForward == Spec => TokenAdvances
<1>1. Invariant /\ [Next]_c => [c'.token # c.token => c'.token.epoch > c.token.epoch]_c
  BY TokenStep
<1>. QED BY <1>1, InitInvariant, NextInvariant, PTL DEF Spec, TokenAdvances
=============================================================================
