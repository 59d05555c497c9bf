---------------------------- MODULE CaptureTask ----------------------------
(***************************************************************************)
(* The task that owns the input capture (lan-mouse/src/capture.rs), with    *)
(* the capture backend and the peers' messages as its environment.  It      *)
(* talks to the service over two FIFO channels (reqs, evts) and through the *)
(* shared CaptureGate.                                                      *)
(*                                                                         *)
(* Every capture here is an outgoing one at a position of its own, so a     *)
(* handle stands for both; shared positions, creation and destruction are   *)
(* in CaptureRegistry.  Whether a forwarded event is Enter or Input is in   *)
(* Handover.  CaptureBegin is not sent: the service acts on it only for an  *)
(* incoming handle.                                                         *)
(***************************************************************************)
EXTENDS BundleLease, Sequences

CONSTANTS Handles,        \* outgoing captures
          MaxLeases,      \* bound: the backend resumes no edge for a later lease
          MaxInFlight     \* bound: no new stimulus while more than this is on its way

VARIABLES cap,      \* the task: [run, active, session, permit, decision]
          gate,     \* CaptureGate: [armed, last]
          reqs,     \* requests of the service, oldest first
          evts,     \* events for the service, oldest first
          bk,       \* the backend: [grab, edge, queue]
          net       \* messages of peers the task has not read

captureVars == <<cap, gate, reqs, evts, bk, net>>

-----------------------------------------------------------------------------
(* CaptureGate.  A permit is [handle, epoch, session, left]; left = 0 means *)
(* expires_at <= now.                                                       *)

GateArm(g, permit) ==
  IF permit.epoch > g.last THEN [armed |-> permit, last |-> permit.epoch] ELSE g

GateConsume(g, handle) ==
  IF g.armed = None THEN [permit |-> None, gate |-> g]
  ELSE IF g.armed.left = 0 THEN [permit |-> None, gate |-> [g EXCEPT !.armed = None]]
  ELSE IF g.armed.handle # handle THEN [permit |-> None, gate |-> g]
  ELSE [permit |-> g.armed, gate |-> [g EXCEPT !.armed = None]]

GateDisarm(g, epoch) ==
  IF g.armed # None /\ g.armed.epoch = epoch THEN [g EXCEPT !.armed = None] ELSE g

GateClear(g) == [g EXCEPT !.armed = None]

-----------------------------------------------------------------------------
(* The backend: it grabs the input at an edge, queues events while it holds *)
(* it, may lose it, and reports that the pointer left the edge of the last  *)
(* release.                                                                 *)

NoBackend == [grab |-> None, edge |-> None, queue |-> <<>>]

Backed(h, what) == [h |-> h, what |-> what]

BackendRelease(b) == [b EXCEPT !.edge = IF b.grab # None THEN b.grab ELSE @, !.grab = None]

(* The bound on the environment: channels of the code are not bounded. *)
Calm == Len(reqs) + Len(evts) + Len(bk.queue) + Len(net) <= MaxInFlight

BackendMay ==
  /\ cap.run \in {"on", "ask"} /\ Calm
  /\ UNCHANGED <<cap, gate, reqs, evts, net>>

CrossEdge(h) ==
  /\ BackendMay /\ bk.grab = None
  /\ bk' = [grab |-> h, edge |-> None, queue |-> Append(bk.queue, Backed(h, "Begin"))]

MoveWhileGrabbed ==
  /\ BackendMay /\ bk.grab # None
  /\ bk' = [bk EXCEPT !.queue = Append(@, Backed(bk.grab, "Input"))]

RetreatFromEdge ==
  /\ BackendMay /\ bk.grab = None /\ bk.edge # None
  /\ bk' = [bk EXCEPT !.edge = None, !.queue = Append(@, Backed(bk.edge, "EdgeRetreated"))]

LoseGrab ==
  /\ BackendMay /\ bk.grab # None
  /\ bk' = [bk EXCEPT !.grab = None, !.queue = Append(@, Backed(bk.grab, "EdgeRetreated"))]

-----------------------------------------------------------------------------
(* What a handler leaves behind: [cap, bk, out].  What it sends to the peer *)
(* is in Handover.  A capture.release() *)
(* that fails ends the session before anything after it happens.            *)

Quiet(c, b) == [cap |-> c, bk |-> b, out |-> <<>>]

SessionEnds(c) ==
  [cap |-> [c EXCEPT !.run = "off"], bk |-> NoBackend,
   out |-> <<[what |-> "CaptureDisabled"]>>]

(* capture.release() and then a notification of the service. *)
ReleaseThenNotify(c, b, event) ==
  {[Quiet(c, BackendRelease(b)) EXCEPT !.out = <<event>>], SessionEnds(c)}

(* release_capture: local input first, then Leave to the peer, then the service. *)
ReleaseCapture(c, b, reason) ==
  LET freed == [c EXCEPT !.active = None]
      done  == IF c.active = None
                 THEN Quiet(freed, BackendRelease(b))
                 ELSE [cap |-> [freed EXCEPT !.session = None], bk |-> BackendRelease(b),
                       out |-> <<[what |-> "ClientReleased", h |-> c.active, reason |-> reason]>>]
  IN {done, SessionEnds(freed)}

(* conn.send of an event to the active client, which may fail. *)
ForwardTo(c, b) ==
  {Quiet(c, b)} \cup ReleaseCapture(c, b, "TransportFailed")

Becomes(results) ==
  \E r \in results : /\ cap' = r.cap /\ bk' = r.bk
                     /\ evts' = evts \o r.out

-----------------------------------------------------------------------------
(* handle_capture_event *)

HandleRetreat(b, h) ==
  IF cap.active = h
    THEN ReleaseCapture(cap, b, "LocalCaptureLost")
    ELSE {[Quiet(cap, b) EXCEPT !.out = <<[what |-> "EdgeRetreated", h |-> h]>>]}

(* A Begin outside of an active capture needs a permit, and with it the service's word. *)
HandleCrossing(b, h) ==
  LET got == GateConsume(gate, h) IN
  /\ gate' = got.gate
  /\ IF got.permit = None
       THEN Becomes(ReleaseThenNotify(cap, b, [what |-> "CaptureCandidate", h |-> h]))
       ELSE Becomes({[Quiet([cap EXCEPT !.run = "ask", !.permit = got.permit], b) EXCEPT
                        !.out = <<[what |-> "CommitRequested", permit |-> got.permit]>>]})

HandleCaptureEvent ==
  /\ cap.run = "on" /\ bk.queue # <<>>
  /\ LET e == Head(bk.queue)
         b == [bk EXCEPT !.queue = Tail(@)]
     IN \/ /\ e.what = "EdgeRetreated"
           /\ Becomes(HandleRetreat(b, e.h))
           /\ UNCHANGED gate
        \/ /\ e.what # "EdgeRetreated"         \* the release bind is held down
           /\ Becomes(ReleaseCapture(cap, b, "ReleaseBind"))
           /\ UNCHANGED gate
        \/ /\ e.what = "Begin" /\ cap.active # e.h
           /\ HandleCrossing(b, e.h)
        \/ /\ e.what = "Input" /\ cap.active # e.h
           /\ Becomes({Quiet(cap, BackendRelease(b)), SessionEnds(cap)})
           /\ UNCHANGED gate
        \/ /\ e.what \in {"Begin", "Input"} /\ cap.active = e.h
           /\ Becomes(ForwardTo(cap, b))
           /\ UNCHANGED gate
  /\ UNCHANGED <<reqs, net>>

(* handle_capture_event after request_commit_authorization returned. *)
CommitDecided ==
  /\ cap.run = "ask" /\ cap.decision # None
  /\ LET c == [cap EXCEPT !.run = "on", !.permit = None, !.decision = None]
         p == cap.permit
     IN Becomes(IF cap.decision
                  THEN ForwardTo([c EXCEPT !.active = p.handle, !.session = p.session], bk)
                  ELSE ReleaseThenNotify(c, bk, [what |-> "CommitDeniedReleased",
                                                 h |-> p.handle, epoch |-> p.epoch]))
  /\ UNCHANGED <<gate, reqs, net>>

-----------------------------------------------------------------------------
(* Messages of peers: [from, what, ready, session]. *)

HandlePeerMessage ==
  /\ cap.run = "on" /\ net # <<>>
  /\ net' = Tail(net)
  /\ LET m == Head(net) IN
     \/ /\ cap.active \notin {None, m.from}
        /\ UNCHANGED <<cap, bk, evts>>
     \/ /\ cap.active \in {None, m.from} /\ m.what = "Leave"
        /\ Becomes(ReleaseCapture(cap, bk, "PeerLeft"))
     \/ /\ cap.active \in {None, m.from} /\ m.what = "ReleaseRequest"
        /\ Becomes(ReleaseCapture(cap, bk, "PeerReleaseRequested"))
     \/ /\ cap.active \in {None, m.from} /\ m.what = "Readiness"
        /\ LET told == [what |-> "PeerReadiness", h |-> m.from] IN
           IF cap.active = m.from /\ (~m.ready \/ cap.session # m.session)
             THEN Becomes({[r EXCEPT !.out = IF r.cap.run = "off" THEN @ ELSE Append(@, told)]
                            : r \in ReleaseCapture(cap, bk, "PeerReadinessLost")})
             ELSE Becomes({[Quiet(cap, bk) EXCEPT !.out = <<told>>]})
  /\ UNCHANGED <<gate, reqs>>

-----------------------------------------------------------------------------
(* Requests of the service, while a session runs and while none does. *)

HandleRequest ==
  /\ cap.run = "on" /\ reqs # <<>>
  /\ reqs' = Tail(reqs)
  /\ LET q == Head(reqs) IN
     \/ /\ q.what = "Release"
        /\ gate' = GateClear(gate)
        /\ Becomes(ReleaseCapture(cap, bk, "ServiceRequested"))
     \/ /\ q.what = "Reenable"
        /\ UNCHANGED <<gate, cap, bk, evts>>
     \/ /\ q.what = "ResumeIfFocused"
        /\ \/ UNCHANGED bk
           \/ /\ bk.grab = None /\ bk.edge = q.h /\ gate.last <= MaxLeases
              /\ bk' = [grab |-> q.h, edge |-> None,
                        queue |-> Append(bk.queue, Backed(q.h, "Begin"))]
        /\ UNCHANGED <<gate, cap, evts>>
  /\ UNCHANGED net

HandleRequestOff ==
  /\ cap.run = "off" /\ reqs # <<>>
  /\ reqs' = Tail(reqs)
  /\ LET q == Head(reqs) IN
     \/ /\ q.what = "Reenable"                 \* InputCapture::new may fail
        /\ \/ UNCHANGED <<cap, evts>>
           \/ /\ cap' = [cap EXCEPT !.run = "on"]
              /\ evts' = Append(evts, [what |-> "CaptureEnabled"])
        /\ UNCHANGED gate
     \/ /\ q.what = "Release"
        /\ gate' = GateClear(gate)
        /\ UNCHANGED <<cap, evts>>
     \/ /\ q.what = "ResumeIfFocused"
        /\ UNCHANGED <<gate, cap, evts>>
  /\ UNCHANGED <<bk, net>>

(* The backend's stream yields an error. *)
CaptureFails ==
  /\ cap.run = "on" /\ Calm
  /\ Becomes({SessionEnds(cap)})
  /\ UNCHANGED <<gate, reqs, net>>

(* The cancellation token ends the task wherever it waits in a select. *)
CaptureExit ==
  /\ \/ cap.run = "on" /\ Becomes({[SessionEnds(cap) EXCEPT !.cap.run = "exit"]})
     \/ cap.run = "off" /\ Becomes({Quiet([cap EXCEPT !.run = "exit"], bk)})
  /\ UNCHANGED <<gate, reqs, net>>

CaptureInit ==
  /\ cap = [run |-> "on", active |-> None, session |-> None, permit |-> None, decision |-> None]
  /\ gate = [armed |-> None, last |-> 0]
  /\ reqs = <<>> /\ evts = <<>> /\ net = <<>>
  /\ bk = NoBackend

(* What the task does when it runs. *)
CaptureTurn ==
  \/ HandleCaptureEvent
  \/ CommitDecided
  \/ HandlePeerMessage
  \/ HandleRequest
  \/ HandleRequestOff

BackendNext ==
  \/ \E h \in Handles : CrossEdge(h)
  \/ MoveWhileGrabbed
  \/ RetreatFromEdge
  \/ LoseGrab
=============================================================================
