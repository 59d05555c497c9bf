-------------------------------- MODULE Hub --------------------------------
(***************************************************************************)
(* The switch logic of the service (lan-mouse/src/service.rs) composed with *)
(* the capture task.  The service reserves a lease when the pointer pushes  *)
(* against an edge, asks the controller for a grant, arms the capture gate, *)
(* answers the capture task's request to commit, renews, and on any failure *)
(* takes the input back and cancels the request at the controller.          *)
(*                                                                         *)
(* Controller operations are tasks that run beside the loop and report over *)
(* a channel of capacity one; a result may be anything the client returns.  *)
(* The clipboard hooks, the notifications and the frontend are left out.    *)
(* Every handle has a switch target that is not the server's own host, and  *)
(* a controller is configured: without one a candidate is only logged.      *)
(***************************************************************************)
EXTENDS CaptureTask, FiniteSets

CONSTANTS IsServer,       \* the edge intent gate exists only on the server's host
          LeaseTtl,       \* lease_ttl_ms
          EdgeWindow,     \* edge_double_tap_timeout
          Sessions,       \* peer session epochs; 0 is none
          MaxTasks        \* bound: controller tasks before the pointer stops crossing edges

VARIABLES svc,        \* the service: [mgr, intent, task, tnext, active, pending, timer]
          peers,      \* ClientManager: [ready, session] of each handle
          swq,        \* the switch event channel
          cancelled,  \* lease epochs whose cancellation was sent to the controller
          life        \* "running", "stopping" (waiting for the capture task), "stopped"

serviceVars == <<svc, peers, swq, cancelled, life>>
vars == <<captureVars, serviceVars>>

ASSUME HubAssumption ==
  /\ LeaseTtl \in Nat \ {0} /\ EdgeWindow \in Nat \ {0}
  /\ MaxLeases \in Nat /\ MaxInFlight \in Nat /\ MaxTasks \in Nat
  /\ IsServer \in BOOLEAN /\ Sessions \subseteq Nat \ {0}

-----------------------------------------------------------------------------
(* The service's record and what it shares with the capture task; every     *)
(* method below maps such a triple to the next one.                         *)

World == [svc |-> svc, gate |-> gate, reqs |-> reqs]

Publish(x) == svc' = x.svc /\ gate' = x.gate /\ reqs' = x.reqs

CaptureRelease(x) ==
  [x EXCEPT !.gate = GateClear(@), !.reqs = Append(@, [what |-> "Release"])]

CaptureArm(x, permit) ==
  LET g == GateArm(x.gate, permit) IN
  IF g = x.gate THEN x
  ELSE [x EXCEPT !.gate = g,
                 !.reqs = Append(@, [what |-> "ResumeIfFocused", h |-> permit.handle])]

CancelSwitchTask(x) == [x EXCEPT !.svc.task = None]

(* begin_switch_task and the spawn after it; nothing when a task is active. *)
BeginTask(x, kind, ctx) ==
  IF x.svc.task # None THEN x
  ELSE [x EXCEPT !.svc.tnext = @ + 1,
                 !.svc.task = [epoch |-> x.svc.tnext + 1, kind |-> kind, ctx |-> ctx,
                               done |-> FALSE]]

(* Mutant of ResetDeadline: the timer is not set. *)
ResetNever(x) == x

ResetDeadline(x) == [x EXCEPT !.svc.timer = LeaseDeadline(x.svc.mgr)]

InvalidateIfCurrent(x, ctx) ==
  IF SameIdentity(x.svc.mgr, ctx) THEN [x EXCEPT !.svc.mgr = Invalidate(@)] ELSE x

FailBesideTask(x, ctx) ==
  [InvalidateIfCurrent(x, ctx) EXCEPT !.gate = GateDisarm(@, ctx.epoch), !.svc.timer = None]

(* What both ways to fail a context begin with. *)
FailClosed(x, ctx) ==
  LET a == InvalidateIfCurrent(x, ctx)
  IN [CancelSwitchTask(a) EXCEPT !.gate = GateDisarm(@, ctx.epoch), !.svc.timer = None]

FailWithoutRelease(x, ctx) == BeginTask(FailClosed(x, ctx), "cleanup", ctx)

FailContext(x, ctx) ==
  LET a == FailClosed(x, ctx) IN
  IF a.svc.active = <<ctx.handle, ctx.epoch>>
    THEN CaptureRelease([a EXCEPT !.svc.pending = ctx])
    ELSE BeginTask(a, "cleanup", ctx)

DeferFailure(x, ctx) == [FailClosed(x, ctx) EXCEPT !.svc.pending = ctx]

FailGate(x) ==
  IF x.svc.mgr.ctx = None THEN x
  ELSE FailContext([x EXCEPT !.svc.mgr = Invalidate(@)], x.svc.mgr.ctx)

ReleaseGateAfterCapture(x) ==
  LET ctx == x.svc.mgr.ctx IN
  IF ctx = None THEN x
  ELSE BeginTask([CancelSwitchTask(x) EXCEPT !.svc.mgr = Invalidate(@), !.svc.timer = None],
                 "cleanup", ctx)

CompletePendingCleanup(x) ==
  BeginTask([x EXCEPT !.svc.pending = None], "cleanup", x.svc.pending)

SettleRelease(x) ==
  IF x.svc.pending # None THEN CompletePendingCleanup(x) ELSE ReleaseGateAfterCapture(x)

-----------------------------------------------------------------------------
(* handle_capture_candidate *)

ReserveAndPrepare(x, h) ==
  LET p == peers[h]
      r == Reserve(x.svc.mgr, h, h, p.session, p.ready, LeaseTtl)
  IN CASE r.err = Ok ->
            BeginTask(ResetDeadline([x EXCEPT !.svc.mgr = r.mgr]), "prepare", r.mgr.ctx)
       [] r.err = "PeerNotReady" -> BeginTask(x, "manual", None)
       [] OTHER -> x

HandleCandidate(x, h) ==
  LET key == [handle |-> h, target |-> h, session |-> peers[h].session]
      e   == EdgeCandidate(x.svc.intent, key, EdgeWindow)
  IN IF x.svc.task # None THEN x
     ELSE IF ~IsServer THEN ReserveAndPrepare(x, h)
     ELSE LET y == [x EXCEPT !.svc.intent = e.gate] IN
          IF e.decision = "Confirmed" THEN ReserveAndPrepare(y, h) ELSE y

(* authorize_client_enter: the world and the decision. *)
AuthorizeEnter(x, permit) ==
  LET ctx == x.svc.mgr.ctx
      p   == peers[permit.handle]
      c   == CommitLease(x.svc.mgr, permit.handle, permit.epoch, p.ready, p.session)
      y   == ResetDeadline([x EXCEPT !.svc.mgr = c.mgr])
  IN IF ctx = None THEN [x |-> x, ok |-> FALSE]
     ELSE IF ctx.handle # permit.handle \/ ctx.epoch # permit.epoch \/ ctx.session # permit.session
       THEN [x |-> DeferFailure(x, ctx), ok |-> FALSE]
     ELSE IF c.err # Ok
       THEN [x |-> DeferFailure([x EXCEPT !.svc.mgr = c.mgr], ctx), ok |-> FALSE]
     ELSE IF y.svc.task # None
       THEN [x |-> DeferFailure(y, c.mgr.ctx), ok |-> FALSE]
     ELSE [x |-> [BeginTask(y, "commit", c.mgr.ctx) EXCEPT
                    !.svc.active = <<permit.handle, permit.epoch>>], ok |-> TRUE]

HandleCommitDenied(x, h, epoch) ==
  LET a == [x EXCEPT !.svc.active = IF @ = <<h, epoch>> THEN None ELSE @]
      ctx == a.svc.mgr.ctx
  IN IF a.svc.pending # None THEN CompletePendingCleanup(a)
     ELSE IF ctx # None /\ ctx.handle = h /\ ctx.epoch = epoch THEN ReleaseGateAfterCapture(a)
     ELSE a

HandlePeerReadinessChange(x, h) ==
  LET ctx == x.svc.mgr.ctx IN
  IF ctx = None \/ ctx.handle # h THEN x
  ELSE IF ~peers[h].ready \/ peers[h].session # ctx.session THEN FailContext(x, ctx)
  ELSE x

(* handle_capture_event: one event of the capture task. *)
OnCaptureEvent ==
  /\ life = "running" /\ evts # <<>>
  /\ evts' = Tail(evts)
  /\ LET e == Head(evts) IN
     \/ /\ e.what = "CaptureDisabled"
        /\ Publish(SettleRelease([World EXCEPT !.svc.intent = EdgeClear(@), !.svc.active = None]))
        /\ UNCHANGED cap
     \/ /\ e.what = "CaptureEnabled"
        /\ UNCHANGED <<svc, gate, reqs, cap>>
     \/ /\ e.what = "CaptureCandidate"
        /\ Publish(HandleCandidate(World, e.h))
        /\ UNCHANGED cap
     \/ /\ e.what = "EdgeRetreated"
        /\ Publish([World EXCEPT !.svc.intent =
                      IF IsServer THEN EdgeRetreat(@, e.h, EdgeWindow) ELSE @])
        /\ UNCHANGED cap
     \/ /\ e.what = "CommitRequested"
        /\ LET r == AuthorizeEnter(World, e.permit) IN
           Publish(r.x) /\ cap' = [cap EXCEPT !.decision = r.ok]
     \/ /\ e.what = "CommitDeniedReleased"
        /\ Publish(HandleCommitDenied(World, e.h, e.epoch))
        /\ UNCHANGED cap
     \/ /\ e.what = "ClientReleased"
        /\ Publish(SettleRelease([World EXCEPT !.svc.active = None]))
        /\ UNCHANGED cap
     \/ /\ e.what = "PeerReadiness"
        /\ Publish(HandlePeerReadinessChange(World, e.h))
        /\ UNCHANGED cap
  /\ UNCHANGED <<bk, net, peers, swq, cancelled, life>>
-----------------------------------------------------------------------------
(* Controller tasks.  A task reports when the channel has room.  The times  *)
(* in a report run on while it waits in the channel.                        *)

Failed == [err |-> "Failed", lease_left |-> 0, grant_left |-> 0]

Granted == [err : {Ok}, lease_left : 1 .. LeaseTtl, grant_left : {1, LeaseTtl}]

Extended == {g \in Granted : g.grant_left = LeaseTtl}    \* only lease_left is read

(* Task t ends with a report, or goes on after it when it is a renewal that worked. *)
Report(kind, results) ==
  /\ life = "running" /\ swq = <<>>
  /\ svc.task # None /\ svc.task.kind = kind /\ ~svc.task.done
  /\ \E r \in results :
       /\ swq' = <<[kind |-> kind, epoch |-> svc.task.epoch, ctx |-> svc.task.ctx, result |-> r]>>
       /\ svc' = [svc EXCEPT !.task.done = ~(kind = "renew" /\ r.err = Ok)]
  /\ UNCHANGED <<captureVars, peers, life>>

PrepareTask == Report("prepare", Granted \cup {Failed}) /\ UNCHANGED cancelled

CommitTask == Report("commit", Extended \cup {Failed}) /\ UNCHANGED cancelled

RenewalTask == Report("renew", Extended \cup {Failed}) /\ UNCHANGED cancelled

(* The cancellation is sent whatever became of the readiness report before it. *)
CleanupTask ==
  /\ Report("cleanup", {Failed})
  /\ cancelled' = cancelled \cup {svc.task.ctx.epoch}

ManualRecoveryTask == Report("manual", {Failed}) /\ UNCHANGED cancelled

TaskReports ==
  \/ PrepareTask
  \/ CommitTask
  \/ RenewalTask
  \/ CleanupTask
  \/ ManualRecoveryTask

FinishSwitchTask(x, epoch) ==
  IF x.svc.task # None /\ x.svc.task.epoch = epoch THEN [x EXCEPT !.svc.task = None] ELSE x

HandlePrepared(x, ctx, a) ==
  LET m == x.svc.mgr
      p == peers[ctx.handle]
      g == ArmGrant(m, ctx, [request |-> 1, grant |-> 1, lease_left |-> a.lease_left,
                             grant_left |-> a.grant_left], p.ready, p.session)
      y == ResetDeadline([x EXCEPT !.svc.mgr = g.mgr])
  IN IF ~SameIdentity(m, ctx) THEN x
     ELSE IF a.err # Ok THEN FailGate(x)
     ELSE IF g.err # Ok THEN FailContext([x EXCEPT !.svc.mgr = g.mgr], ctx)
     ELSE IF LeaseDeadline(g.mgr) = 0 THEN FailContext(y, ctx)
     ELSE CaptureArm(y, [handle |-> ctx.handle, epoch |-> ctx.epoch, session |-> ctx.session,
                         left |-> LeaseDeadline(g.mgr)])

HandleCommitted(x, ctx, a) ==
  LET m == x.svc.mgr
      p == peers[ctx.handle]
      r == RenewLease(m, ctx.epoch, a.lease_left, p.ready, p.session)
      y == ResetDeadline([x EXCEPT !.svc.mgr = r.mgr])
  IN IF ~SameIdentity(m, ctx) THEN x
     ELSE IF a.err # Ok THEN FailGate(x)
     ELSE IF r.err # Ok THEN FailContext([x EXCEPT !.svc.mgr = r.mgr], ctx)
     ELSE IF y.svc.task # None THEN FailContext(y, ctx)
     ELSE BeginTask(y, "renew", r.mgr.ctx)

HandleRenewed(x, epoch, ctx, a) ==
  LET m == x.svc.mgr
      p == peers[ctx.handle]
      r == RenewLease(m, ctx.epoch, a.lease_left, p.ready, p.session)
      f == FinishSwitchTask(x, epoch)
  IN IF ~SameIdentity(m, ctx) THEN CancelSwitchTask(x)
     ELSE IF a.err # Ok THEN FailGate(f)
     ELSE IF r.err # Ok THEN FailContext([f EXCEPT !.svc.mgr = r.mgr], ctx)
     ELSE ResetDeadline([x EXCEPT !.svc.mgr = r.mgr])

(* handle_switch_task_event: a report of a task that is no longer current is dropped. *)
OnSwitchEvent ==
  /\ life = "running" /\ swq # <<>>
  /\ swq' = <<>>
  /\ LET e == Head(swq)
         current == svc.task # None /\ svc.task.epoch = e.epoch
         f == FinishSwitchTask(World, e.epoch)
     IN \/ /\ ~current
           /\ Publish(World)
        \/ /\ current /\ e.kind = "prepare"
           /\ Publish(HandlePrepared(f, e.ctx, e.result))
        \/ /\ current /\ e.kind = "commit"
           /\ Publish(HandleCommitted(f, e.ctx, e.result))
        \/ /\ current /\ e.kind = "renew"
           /\ Publish(HandleRenewed(World, e.epoch, e.ctx, e.result))
        \/ /\ current /\ e.kind \in {"cleanup", "manual"}
           /\ Publish(f)
  /\ UNCHANGED <<cap, evts, bk, net, peers, cancelled, life>>

(* handle_switch_deadline: the sleep of the last reset_switch_deadline is over. *)
OnSwitchDeadline ==
  /\ life = "running" /\ svc.timer = 0
  /\ LET x == [World EXCEPT !.svc.timer = None] IN
     Publish(IF LeaseExpired(svc.mgr)
               THEN FailContext([x EXCEPT !.svc.mgr = Invalidate(@)], svc.mgr.ctx)
               ELSE ResetDeadline(x))
  /\ UNCHANGED <<cap, evts, bk, net, peers, swq, cancelled, life>>

(* The part of handle_config_change that concerns the switch. *)
OnConfigChange ==
  /\ life = "running" /\ svc.mgr.ctx # None /\ Calm
  /\ Publish([FailGate(World) EXCEPT !.svc.intent = None])
  /\ UNCHANGED <<cap, evts, bk, net, peers, swq, cancelled, life>>

(* FrontendRequest::EnableCapture *)
EnableCapture ==
  /\ life = "running" /\ cap.run = "off" /\ Calm
  /\ reqs' = Append(reqs, [what |-> "Reenable"])
  /\ UNCHANGED <<cap, gate, evts, bk, net, serviceVars>>

(* EmulationEvent::ReleaseCapture: a peer enters this host. *)
ReleaseForIncoming ==
  /\ life = "running" /\ Calm /\ cap.run = "on"
  /\ Publish(CaptureRelease(World))
  /\ UNCHANGED <<cap, evts, bk, net, peers, swq, cancelled, life>>

(* EmulationEvent::Disconnected of a peer that is also an outgoing client. *)
IncomingDisconnected(h) ==
  /\ life = "running" /\ peers[h].ready
  /\ peers' = [peers EXCEPT ![h] = [ready |-> FALSE, session |-> 0]]
  /\ LET ctx == svc.mgr.ctx IN
     Publish(IF ctx # None /\ ctx.handle = h THEN FailContext(World, ctx) ELSE World)
  /\ UNCHANGED <<cap, evts, bk, net, swq, cancelled, life>>

(* The outgoing connection's receive loop: it updates the ClientManager and *)
(* passes the message on to the capture task.                               *)
PeerReadinessArrives(h) ==
  /\ life = "running" /\ Calm
  /\ \E p \in {[ready |-> FALSE, session |-> 0]} \cup [ready : {TRUE}, session : Sessions] :
       /\ p # peers[h]
       /\ peers' = [peers EXCEPT ![h] = p]
       /\ net' = Append(net, [from |-> h, what |-> "Readiness", ready |-> p.ready,
                              session |-> p.session])
  /\ UNCHANGED <<cap, gate, reqs, evts, bk, svc, swq, cancelled, life>>

PeerAsksForInput(h, what) ==
  /\ life = "running" /\ Calm
  /\ net' = Append(net, [from |-> h, what |-> what, ready |-> FALSE, session |-> 0])
  /\ UNCHANGED <<cap, gate, reqs, evts, bk, serviceVars>>

-----------------------------------------------------------------------------
(* The end of Service::run: the loop is left, and the service waits for the *)
(* capture task before it cancels the request at the controller.            *)

Shutdown ==
  /\ life = "running"
  /\ life' = "stopping"
  /\ LET x == CaptureRelease(World) IN
     Publish([CancelSwitchTask(x) EXCEPT !.svc.timer = None, !.svc.mgr = Invalidate(@)])
  /\ swq' = <<>>
  /\ cancelled' = IF svc.mgr.ctx = None THEN cancelled ELSE cancelled \cup {svc.mgr.ctx.epoch}
  /\ UNCHANGED <<cap, evts, bk, net, peers>>

CaptureTerminates ==
  /\ life = "stopping"
  /\ CaptureExit
  /\ UNCHANGED serviceVars

Stopped ==
  /\ life = "stopping" /\ cap.run = "exit"
  /\ life' = "stopped"
  /\ UNCHANGED <<captureVars, svc, peers, swq, cancelled>>

-----------------------------------------------------------------------------
Elapsed(a) == [a EXCEPT !.lease_left = Left(@), !.grant_left = Left(@)]

Clock ==
  /\ svc.mgr.ctx # None \/ svc.intent # None \/ gate.armed # None
  /\ svc' = [svc EXCEPT !.mgr = LeaseElapse(@), !.intent = EdgeElapse(@),
                        !.timer = IF @ = None THEN None ELSE Left(@)]
  /\ gate' = [gate EXCEPT !.armed = IF @ = None THEN None ELSE [@ EXCEPT !.left = Left(@)]]
  /\ swq' = [i \in DOMAIN swq |-> [swq[i] EXCEPT !.result = Elapsed(@)]]
  /\ UNCHANGED <<cap, reqs, evts, bk, net, peers, cancelled, life>>

Init ==
  /\ CaptureInit
  /\ svc = [mgr |-> NewManager, intent |-> None, task |-> None, tnext |-> 0,
            active |-> None, pending |-> None, timer |-> None]
  /\ peers = [h \in Handles |-> [ready |-> FALSE, session |-> 0]]
  /\ swq = <<>> /\ cancelled = {} /\ life = "running"

Next ==
  \/ CaptureTurn /\ UNCHANGED serviceVars
  \/ CaptureFails /\ life = "running" /\ UNCHANGED serviceVars
  \/ BackendNext /\ life = "running" /\ svc.tnext < MaxTasks /\ UNCHANGED serviceVars
  \/ OnCaptureEvent
  \/ TaskReports
  \/ OnSwitchEvent
  \/ OnSwitchDeadline
  \/ OnConfigChange
  \/ EnableCapture
  \/ ReleaseForIncoming
  \/ \E h \in Handles : IncomingDisconnected(h)
  \/ \E h \in Handles : PeerReadinessArrives(h)
  \/ \E h \in Handles, what \in {"Leave", "ReleaseRequest"} : PeerAsksForInput(h, what)
  \/ Shutdown
  \/ CaptureTerminates
  \/ Stopped
  \/ Clock

Spec == Init /\ [][Next]_vars

(* The loops of the service and of the capture task choose at random among  *)
(* the branches that are ready, so a branch that stays ready is taken; an   *)
(* HTTP operation has a time limit, and time passes.                        *)
TakeCaptureEvent == HandleCaptureEvent /\ UNCHANGED serviceVars
TakeDecision == CommitDecided /\ UNCHANGED serviceVars
TakePeerMessage == HandlePeerMessage /\ UNCHANGED serviceVars
TakeRequest == (HandleRequest \/ HandleRequestOff) /\ UNCHANGED serviceVars

Fairness ==
  /\ WF_vars(OnCaptureEvent) /\ WF_vars(OnSwitchEvent) /\ WF_vars(OnSwitchDeadline)
  /\ WF_vars(TaskReports) /\ WF_vars(Clock) /\ WF_vars(CaptureTerminates) /\ WF_vars(Stopped)
  /\ WF_vars(TakeCaptureEvent) /\ WF_vars(TakeDecision)
  /\ WF_vars(TakePeerMessage) /\ WF_vars(TakeRequest)

FairSpec == Spec /\ Fairness

-----------------------------------------------------------------------------
(* Properties *)

ReleaseOnItsWay == \E i \in DOMAIN reqs : reqs[i].what = "Release"

OwnedBy(h) == svc.mgr.kind = RemoteOwned /\ svc.mgr.ctx.handle = h

(* A capture becomes active only for the peer and the peer session of the   *)
(* lease the service committed, or with the order to give it up already in  *)
(* the queue: the permit, the decision and the lease are read at different  *)
(* times by two tasks.                                                      *)
ActivationIsLicensed ==
  [][cap'.active \notin {None, cap.active} =>
       \/ OwnedBy(cap'.active) /\ svc.mgr.ctx.session = cap'.session
       \/ ReleaseOnItsWay]_vars

(* While a lease is held a timer runs that fires no later than the lease or *)
(* its grant ends.                                                          *)
LeaseHasTimer ==
  life = "running" /\ svc.mgr.kind # Local =>
    svc.timer # None /\ svc.timer <= LeaseDeadline(svc.mgr)

(* Every lease that was reserved is the current one, or its cancellation    *)
(* has been sent, is being sent, or waits for the capture to be released:   *)
(* start_cleanup_task gives up silently when another task is active.        *)
CleanupNotLost ==
  life = "running" =>
    \A e \in 1 .. svc.mgr.next :
      \/ svc.mgr.ctx # None /\ svc.mgr.ctx.epoch = e
      \/ svc.pending # None /\ svc.pending.epoch = e
      \/ svc.task # None /\ svc.task.kind = "cleanup" /\ svc.task.ctx.epoch = e
      \/ e \in cancelled

(* The controller hears of every lease that ended, in a service that keeps  *)
(* running.                                                                 *)
EndedLeaseReported ==
  \A e \in 1 .. MaxLeases :
    (svc.mgr.next >= e /\ (svc.mgr.ctx = None \/ svc.mgr.ctx.epoch # e))
      ~> (e \in cancelled \/ life # "running")

(* A reservation ends: in a committed lease or in nothing. *)
ReservationEnds ==
  (svc.mgr.kind \in {Preparing, GrantArmed}) ~> (svc.mgr.kind \in {Local, RemoteOwned})

(* The service comes to an end when it is asked to. *)
ShutdownCompletes == life = "stopping" ~> life = "stopped"

(* Input is forwarded to a peer only under a lease, or with the order to    *)
(* give it up in the queue.                                                 *)
ForwardsOnlyUnderLease ==
  cap.run = "on" /\ cap.active # None /\ bk.grab = cap.active =>
    OwnedBy(cap.active) \/ ReleaseOnItsWay
=============================================================================
