---------------------------- MODULE BundleLease ----------------------------
(***************************************************************************)
(* The local gate of the hub (lan-mouse/src/switch.rs): EdgeIntentGate and  *)
(* BundleLeaseManager.  Every method is an operator on the record it        *)
(* mutates; a method that can fail returns [err, mgr].                      *)
(*                                                                         *)
(* Times are the time that is left; 0 stands for every past time.  The      *)
(* request and lease ids are random and fresh, so the lease epoch stands    *)
(* for both.  The lease of a Preparing context keeps its expiry, so that    *)
(* arm_grant's comparison of whole contexts is a comparison of identities.  *)
(***************************************************************************)
EXTENDS Naturals

CONSTANT None, Ok

Left(t) == IF t = 0 THEN 0 ELSE t - 1

Least(s, t) == IF s < t THEN s ELSE t

-----------------------------------------------------------------------------
(* EdgeIntentGate: an intent is [key, rearmed, left] or None. *)

EdgeExpire(g) == IF g # None /\ g.left = 0 THEN None ELSE g

EdgeCandidate(g, key, window) ==
  LET live == EdgeExpire(g) IN
  IF live # None /\ live.key = key
    THEN IF live.rearmed THEN [decision |-> "Confirmed", gate |-> None]
                         ELSE [decision |-> "AwaitingRetreat", gate |-> live]
    ELSE [decision |-> "Primed", gate |-> [key |-> key, rearmed |-> FALSE, left |-> window]]

EdgeRetreat(g, handle, window) ==
  LET live == EdgeExpire(g) IN
  IF live # None /\ live.key.handle = handle
    THEN [live EXCEPT !.rearmed = TRUE, !.left = window]
    ELSE live

EdgeRemove(g, handle) == IF g # None /\ g.key.handle = handle THEN None ELSE g

EdgeClear(g) == None

-----------------------------------------------------------------------------
(* BundleLeaseManager: [kind, ctx, grant, until, next].  ctx is             *)
(* [handle, target, epoch, session, left], grant is [request, grant, left]. *)

Local == "Local"
Preparing == "Preparing"
GrantArmed == "GrantArmed"
RemoteOwned == "RemoteOwned"

Unreserved(m) == [m EXCEPT !.kind = Local, !.ctx = None, !.grant = None, !.until = 0]

NewManager == [kind |-> Local, ctx |-> None, grant |-> None, until |-> 0, next |-> 0]

(* What GateContext::same_identity compares. *)
Identity(ctx) == [handle |-> ctx.handle, target |-> ctx.target,
                  epoch |-> ctx.epoch, session |-> ctx.session]

SameIdentity(m, ctx) == m.ctx # None /\ Identity(m.ctx) = Identity(ctx)

Reserve(m, handle, target, session, ready, ttl) ==
  IF m.kind # Local THEN [err |-> "Busy", mgr |-> m]
  ELSE IF ~ready \/ session = 0 THEN [err |-> "PeerNotReady", mgr |-> m]
  ELSE IF ttl = 0 THEN [err |-> "InvalidIdentity", mgr |-> m]
  ELSE [err |-> Ok,
        mgr |-> [m EXCEPT !.kind = Preparing, !.next = m.next + 1,
                          !.ctx = [handle |-> handle, target |-> target, epoch |-> m.next + 1,
                                   session |-> session, left |-> ttl]]]

ArmGrant(m, ctx, prepared, ready, session) ==
  IF m.kind # Preparing THEN [err |-> "InvalidState", mgr |-> m]
  ELSE IF ~SameIdentity(m, ctx) THEN [err |-> "StaleIdentity", mgr |-> m]
  ELSE IF ~ready \/ m.ctx.session # session THEN [err |-> "PeerNotReady", mgr |-> Unreserved(m)]
  ELSE IF m.ctx.left = 0 \/ prepared.lease_left = 0 \/ prepared.grant_left = 0
         THEN [err |-> "Expired", mgr |-> Unreserved(m)]
  ELSE IF prepared.request = 0 \/ prepared.grant = 0 THEN [err |-> "InvalidIdentity", mgr |-> m]
  ELSE [err |-> Ok,
        mgr |-> [m EXCEPT !.kind = GrantArmed,
                          !.ctx.left = Least(m.ctx.left, prepared.lease_left),
                          !.grant = [request |-> prepared.request, grant |-> prepared.grant,
                                     left |-> prepared.grant_left]]]

CommitLease(m, handle, epoch, ready, session) ==
  IF m.kind # GrantArmed THEN [err |-> "InvalidState", mgr |-> m]
  ELSE IF m.ctx.handle # handle \/ m.ctx.epoch # epoch THEN [err |-> "StaleIdentity", mgr |-> m]
  ELSE IF ~ready \/ m.ctx.session # session THEN [err |-> "PeerNotReady", mgr |-> Unreserved(m)]
  ELSE IF m.ctx.left = 0 \/ m.grant.left = 0 THEN [err |-> "Expired", mgr |-> Unreserved(m)]
  ELSE [err |-> Ok, mgr |-> [m EXCEPT !.kind = RemoteOwned,
                                      !.until = Least(m.ctx.left, m.grant.left)]]

RenewLease(m, epoch, until, ready, session) ==
  IF m.kind # RemoteOwned THEN [err |-> "InvalidState", mgr |-> m]
  ELSE IF m.ctx.epoch # epoch THEN [err |-> "StaleIdentity", mgr |-> m]
  ELSE IF ~ready \/ m.ctx.session # session THEN [err |-> "PeerNotReady", mgr |-> Unreserved(m)]
  ELSE IF m.ctx.left = 0 \/ until = 0 THEN [err |-> "Expired", mgr |-> Unreserved(m)]
  ELSE [err |-> Ok, mgr |-> [m EXCEPT !.ctx.left = until, !.until = until]]

(* The time to the next deadline, and None when nothing is reserved. *)
LeaseDeadline(m) ==
  CASE m.kind = Local -> None
    [] m.kind = Preparing -> m.ctx.left
    [] m.kind = GrantArmed -> Least(m.ctx.left, m.grant.left)
    [] m.kind = RemoteOwned -> Least(m.ctx.left, m.until)

(* expire is due exactly when the deadline has passed. *)
LeaseExpired(m) == LeaseDeadline(m) = 0

Invalidate(m) == Unreserved(m)

(* One unit of time passes for everything the manager holds. *)
LeaseElapse(m) ==
  [m EXCEPT !.ctx = IF @ = None THEN None ELSE [@ EXCEPT !.left = Left(@)],
            !.grant = IF @ = None THEN None ELSE [@ EXCEPT !.left = Left(@)],
            !.until = Left(@)]

EdgeElapse(g) == IF g = None THEN None ELSE [g EXCEPT !.left = Left(@)]
=============================================================================
