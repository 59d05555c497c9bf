---------------------------- MODULE LibeiCapture ----------------------------
(* The capture backend for the InputCapture portal                           *)
(* (input-capture/src/libei.rs).  One task runs a loop of portal sessions.   *)
(* In a session three futures are joined: one waits for a reason to end the  *)
(* session (update), one reads the events of the EI connection (ei), one     *)
(* waits for the pointer to cross a barrier and for its release (at).  The   *)
(* capture task calls the backend, and reads its events only between calls.  *)
(*                                                                           *)
(* The portal is external.  A call of it is one step.  Barrier ids are the   *)
(* indices of the barriers.                                                  *)
EXTENDS Integers, Sequences, SequencesExt

CONSTANTS
  Left, Right, Top, Bottom,
  Edges,          \* the edges that may have a client
  Layouts,        \* sequences of regions [x, y, w, h]
  Circumstances,  \* what may happen, see below
  Capacity,       \* of the event channel
  MaxUnread,      \* bound: EI events and signals on their way
  None

(* "idle":    a release is asked for while there is no client                 *)
(* "flood":   the user acts while earlier events are unread                   *)
(* "early":   the pointer crosses a barrier before the task listens           *)
(* "corner":  it crosses at the end of a barrier                              *)
(* "removal": devices are removed                                             *)
(* "closed":  the EI connection ends                                          *)
(* "fault":   a call of the portal fails                                      *)

VARIABLES
  loop,     \* do_capture: "top", "idle", "session" or "ended"
  clients,  \* active_clients
  sess,     \* the futures of one turn of the loop
  failed,   \* the task has ended with an error
  notify,   \* the queue of Create and Destroy, of capacity 1
  release,  \* the release in progress: None, "queued", "taken", "done" or "dropped"
  token,    \* the cancellation token of terminate
  chan,     \* the event channel, and behind its capacity the senders that wait, in order
  portal,   \* the portal: its session, the edge whose barrier was crossed, the regions
  eis,      \* events of the EI connection that are not read
  signals,  \* ZonesChanged signals that are not read
  task      \* the capture task: its call, its active client, its permit, its captures

vars == <<loop, clients, sess, failed, notify, release, token, chan, portal, eis, signals, task>>

-----------------------------------------------------------------------------
(* Barriers *)

PosToBarrier(r, pos) ==
  CASE pos = Left -> <<r.x, r.y, r.x, r.y + r.h - 1>>
    [] pos = Right -> <<r.x + r.w, r.y, r.x + r.w, r.y + r.h - 1>>
    [] pos = Top -> <<r.x, r.y, r.x + r.w - 1, r.y>>
    [] pos = Bottom -> <<r.x, r.y + r.h, r.x + r.w - 1, r.y + r.h>>

(* A barrier for every client and region, in that order *)
SelectBarriers(regions, cs) ==
  [k \in 1..Len(cs) * Len(regions) |->
     LET pos == cs[((k - 1) \div Len(regions)) + 1] IN
     [pos |-> pos, line |-> PosToBarrier(regions[((k - 1) % Len(regions)) + 1], pos)]]

Abs(n) == IF n < 0 THEN -n ELSE n

(* From a point to the line on which a barrier lies, all of it *)
DistanceToLine(line, p) == IF line[1] = line[3] THEN Abs(p[1] - line[1]) ELSE Abs(p[2] - line[2])

(* Mutant of FindCorrespondingClient: the farthest. *)
FindFarthestClient(barriers, p) ==
  CHOOSE k \in DOMAIN barriers :
    \A j \in DOMAIN barriers : DistanceToLine(barriers[k].line, p) >= DistanceToLine(barriers[j].line, p)

FindCorrespondingClient(barriers, p) ==
  CHOOSE k \in DOMAIN barriers :
    \A j \in DOMAIN barriers :
      LET dk == DistanceToLine(barriers[k].line, p)
          dj == DistanceToLine(barriers[j].line, p)
      IN dk < dj \/ (dk = dj /\ k =< j)

(* The points at which the pointer can cross a barrier *)
Points(line) ==
  LET x == (line[1] + line[3]) \div 2
      y == (line[2] + line[4]) \div 2
  IN {<<x, y>>} \cup IF "corner" \in Circumstances THEN {<<line[1], line[2]>>} ELSE {}

-----------------------------------------------------------------------------
(* The event channel *)

Event(what, pos, from) == [what |-> what, pos |-> pos, from |-> from]

(* A sender whose event is behind the capacity waits. *)
Blocked(from) == \E i \in DOMAIN chan : i > Capacity /\ chan[i].from = from

(* The future of a sender is dropped, and what it waits to send with it. *)
Abandoned(from) ==
  SubSeq(chan, 1, IF Len(chan) < Capacity THEN Len(chan) ELSE Capacity) \o
    SelectSeq(SubSeq(chan, Capacity + 1, Len(chan)), LAMBDA e : e.from # from)

-----------------------------------------------------------------------------
(* do_capture *)

NewSession == [at |-> "connect", ei |-> "off", update |-> "waiting", cancelled |-> FALSE,
               quit |-> FALSE, occured |-> None, pos |-> None, barriers |-> <<>>, activated |-> None,
               noticed |-> FALSE, changed |-> FALSE, error |-> FALSE]

Init ==
  /\ loop = "top" /\ clients = <<>> /\ sess = NewSession /\ failed = FALSE
  /\ notify = <<>> /\ release = None /\ token = FALSE /\ chan = <<>>
  /\ \E regions \in Layouts : portal = [session |-> "created", crossed |-> None, regions |-> regions]
  /\ eis = <<>> /\ signals = 0
  /\ task = [call |-> None, active |-> None, permit |-> None, captures |-> {}, up |-> TRUE]

(* The task returns, and its end of the queues is dropped. *)
Ended(error) ==
  /\ loop' = "ended" /\ failed' = error
  /\ release' = IF release \in {"queued", "taken"} THEN "dropped" ELSE release

(* The futures of a turn are made; a session is created where there is none. *)
StartTurn ==
  /\ loop = "top"
  /\ sess' = NewSession
  /\ loop' = IF clients = <<>> THEN "idle" ELSE "session"
  /\ portal' = IF clients # <<>> /\ portal.session = "none" THEN [portal EXCEPT !.session = "created"]
               ELSE portal
  /\ UNCHANGED <<clients, failed, notify, release, token, chan, eis, signals, task>>

CreateSessionFails ==
  /\ "fault" \in Circumstances
  /\ loop = "top" /\ clients # <<>> /\ portal.session = "none"
  /\ Ended(TRUE)
  /\ UNCHANGED <<clients, sess, notify, token, chan, portal, eis, signals, task>>

(* handle_session_update_request, for any of three reasons *)
Wakes == loop \in {"idle", "session"} /\ sess.update = "waiting"
Woken == [sess EXCEPT !.update = "done", !.cancelled = TRUE]

(* The backend or the session ends. *)
UpdateEnds ==
  /\ Wakes /\ (token \/ sess.quit)
  /\ sess' = Woken
  /\ UNCHANGED <<loop, clients, failed, notify, release, token, chan, portal, eis, signals, task>>


ZonesChanged ==
  /\ Wakes /\ signals > 0
  /\ signals' = signals - 1
  /\ sess' = Woken
  /\ UNCHANGED <<loop, clients, failed, notify, release, token, chan, portal, eis, task>>

ClientsChanged ==
  /\ Wakes /\ notify # <<>>
  /\ notify' = Tail(notify)
  /\ sess' = [Woken EXCEPT !.occured = Head(notify)]
  /\ UNCHANGED <<loop, clients, failed, release, token, chan, portal, eis, signals, task>>

(* Clients after a notice *)
Updated(cs, e) ==
  IF e = None THEN cs
  ELSE IF e.what = "Create" THEN Append(cs, e.pos)
  ELSE SelectSeq(cs, LAMBDA pos : pos # e.pos)

(* do_capture_session has returned: an error before its futures were made, or both done *)
SessionOver == sess.at \in {"exited", "failed"} /\ sess.ei \in {"off", "done"}

(* The session is disabled and closed, its error propagated, the clients updated. *)
EndTurn ==
  /\ sess.update = "done"
  /\ loop = "idle" \/ (loop = "session" /\ SessionOver)
  /\ portal' = IF loop = "session" THEN [portal EXCEPT !.session = "none", !.crossed = None] ELSE portal
  /\ eis' = IF loop = "session" THEN <<>> ELSE eis
  /\ IF sess.error \/ token
     THEN Ended(sess.error)
     ELSE loop' = "top" /\ UNCHANGED <<failed, release>>
  /\ clients' = IF sess.error THEN clients ELSE Updated(clients, sess.occured)
  /\ sess' = NewSession
  /\ UNCHANGED <<notify, token, chan, signals, task>>

-----------------------------------------------------------------------------
(* do_capture_session *)

Steps(at) == loop = "session" /\ sess.at = at

(* connect_to_eis *)
Connect ==
  /\ Steps("connect")
  /\ sess' = [sess EXCEPT !.at = "barriers"]
  /\ UNCHANGED <<loop, clients, failed, notify, release, token, chan, portal, eis, signals, task>>

UpdateBarriers ==
  /\ Steps("barriers")
  /\ sess' = [sess EXCEPT !.at = "enable", !.barriers = SelectBarriers(portal.regions, clients)]
  /\ UNCHANGED <<loop, clients, failed, notify, release, token, chan, portal, eis, signals, task>>

Enable ==
  /\ Steps("enable")
  /\ portal' = [portal EXCEPT !.session = "enabled"]
  /\ sess' = [sess EXCEPT !.at = "listen", !.ei = "reading"]
  /\ UNCHANGED <<loop, clients, failed, notify, release, token, chan, eis, signals, task>>

(* receive_activated *)
Listen ==
  /\ Steps("listen")
  /\ sess' = [sess EXCEPT !.at = "waiting"]
  /\ UNCHANGED <<loop, clients, failed, notify, release, token, chan, portal, eis, signals, task>>

CallFails ==
  /\ "fault" \in Circumstances
  /\ \E at \in {"connect", "barriers", "enable", "listen"} : Steps(at)
  /\ sess' = [sess EXCEPT !.at = "failed", !.error = TRUE]
  /\ UNCHANGED <<loop, clients, failed, notify, release, token, chan, portal, eis, signals, task>>

(* The edge of an activation: of its barrier, or of the nearest when that is not known *)
EnteredAt(activated) ==
  sess.barriers[IF activated.known THEN activated.id
                ELSE FindCorrespondingClient(sess.barriers, activated.point)].pos

Activate ==
  /\ Steps("waiting") /\ sess.activated # None
  /\ LET pos == EnteredAt(sess.activated) IN
     /\ sess' = [sess EXCEPT !.at = "sending", !.pos = pos, !.activated = None, !.noticed = FALSE]
     /\ chan' = Append(chan, Event("Begin", pos, "session"))
  /\ UNCHANGED <<loop, clients, failed, notify, release, token, portal, eis, signals, task>>

BeginSent ==
  /\ Steps("sending") /\ ~Blocked("session")
  /\ sess' = [sess EXCEPT !.at = "captured"]
  /\ UNCHANGED <<loop, clients, failed, notify, release, token, chan, portal, eis, signals, task>>

(* The loop is left and the reader of the EI connection cancelled. *)
Exited == [sess EXCEPT !.at = "exited", !.ei = "done", !.noticed = FALSE]

AlreadyLocal ==
  /\ Steps("waiting") /\ release = "queued"
  /\ release' = "done"
  /\ sess' = [sess EXCEPT !.noticed = FALSE]
  /\ UNCHANGED <<loop, clients, failed, notify, token, chan, portal, eis, signals, task>>

TakeRelease ==
  /\ Steps("captured") /\ release = "queued"
  /\ release' = "taken"
  /\ sess' = [sess EXCEPT !.at = "releasing", !.noticed = FALSE]
  /\ UNCHANGED <<loop, clients, failed, notify, token, chan, portal, eis, signals, task>>

DevicesChanged ==
  /\ sess.noticed
  /\ \/ Steps("waiting") /\ sess' = Exited /\ chan' = Abandoned("ei")
     \/ /\ Steps("captured")
        /\ sess' = [sess EXCEPT !.at = "releasing", !.changed = TRUE, !.noticed = FALSE]
        /\ UNCHANGED chan
  /\ UNCHANGED <<loop, clients, failed, notify, release, token, portal, eis, signals, task>>

CancelSession ==
  /\ Steps("waiting") \/ Steps("captured")
  /\ sess.cancelled
  /\ sess' = Exited /\ chan' = Abandoned("ei")
  /\ UNCHANGED <<loop, clients, failed, notify, release, token, portal, eis, signals, task>>

(* Mutant of ReleaseCapture: the portal keeps the pointer when devices have not changed. *)
ReleaseForgotten ==
  /\ Steps("releasing")
  /\ portal' = IF sess.changed THEN [portal EXCEPT !.crossed = None] ELSE portal
  /\ release' = IF release = "taken" THEN "done" ELSE release
  /\ IF sess.changed
     THEN sess' = Exited /\ chan' = Abandoned("ei")
     ELSE sess' = [sess EXCEPT !.at = "waiting"] /\ UNCHANGED chan
  /\ UNCHANGED <<loop, clients, failed, notify, token, eis, signals, task>>

ReleaseCapture ==
  /\ Steps("releasing")
  /\ portal' = [portal EXCEPT !.crossed = None]
  /\ release' = IF release = "taken" THEN "done" ELSE release
  /\ IF sess.changed
     THEN sess' = Exited /\ chan' = Abandoned("ei")
     ELSE sess' = [sess EXCEPT !.at = "waiting"] /\ UNCHANGED chan
  /\ UNCHANGED <<loop, clients, failed, notify, token, eis, signals, task>>

(* The error leaves the future before the reader of the EI connection is cancelled. *)
ReleaseFails ==
  /\ "fault" \in Circumstances
  /\ Steps("releasing")
  /\ release' = IF release = "taken" THEN "dropped" ELSE release
  /\ sess' = [sess EXCEPT !.at = "failed", !.error = TRUE]
  /\ UNCHANGED <<loop, clients, failed, notify, token, chan, portal, eis, signals, task>>

(* Both futures are done. *)
CancelUpdate ==
  /\ loop = "session" /\ SessionOver /\ sess.ei = "done" /\ ~sess.quit
  /\ sess' = [sess EXCEPT !.quit = TRUE]
  /\ UNCHANGED <<loop, clients, failed, notify, release, token, chan, portal, eis, signals, task>>

-----------------------------------------------------------------------------
(* libei_event_handler, handle_ei_event *)


EiExited(s) == [s EXCEPT !.ei = "done", !.cancelled = TRUE]

(* Input belongs to the edge that was entered last.  Only a future that waits at this *)
(* moment is told that devices were removed (notify_waiters).                         *)
ReadEi ==
  /\ loop = "session" /\ sess.ei = "reading" /\ ~Blocked("ei") /\ eis # <<>>
  /\ eis' = Tail(eis)
  /\ CASE Head(eis) = "input" ->
            /\ chan' = IF sess.pos = None THEN chan ELSE Append(chan, Event("Input", sess.pos, "ei"))
            /\ UNCHANGED sess
       [] Head(eis) = "removed" ->
            /\ sess' = [sess EXCEPT !.noticed = @ \/ sess.at \in {"waiting", "captured"}]
            /\ UNCHANGED chan
       [] Head(eis) = "closed" -> sess' = EiExited(sess) /\ UNCHANGED chan
  /\ UNCHANGED <<loop, clients, failed, notify, release, token, portal, signals, task>>

-----------------------------------------------------------------------------
(* The portal and the user *)

Calm == chan = <<>> /\ eis = <<>>

CrossBarrier(id, point, known) ==
  /\ portal.session = "enabled" /\ portal.crossed = None
  /\ "flood" \in Circumstances \/ Calm
  /\ "early" \in Circumstances \/ ~Steps("listen")
  /\ portal' = [portal EXCEPT !.crossed = sess.barriers[id].pos]
  /\ sess' = IF Steps("listen") THEN sess
             ELSE [sess EXCEPT !.activated = [id |-> id, point |-> point, known |-> known]]
  /\ UNCHANGED <<loop, clients, failed, notify, release, token, chan, eis, signals, task>>

(* An event of the EI connection *)
Emits(event) ==
  /\ portal.session \in {"enabled", "dead"}
  /\ Len(eis) < MaxUnread /\ \A i \in DOMAIN eis : eis[i] # "closed"
  /\ eis' = Append(eis, event)
  /\ UNCHANGED <<loop, clients, sess, failed, notify, release, token, chan, signals, task>>

UserInput ==
  /\ portal.crossed # None
  /\ "flood" \in Circumstances \/ (Calm /\ Steps("captured"))
  /\ Emits("input")
  /\ UNCHANGED portal

(* The compositor ends the session when a device goes. *)
RemoveDevice ==
  /\ "removal" \in Circumstances /\ portal.session = "enabled"
  /\ Emits("removed")
  /\ portal' = [portal EXCEPT !.session = "dead", !.crossed = None]

CloseConnection ==
  /\ "closed" \in Circumstances
  /\ Emits("closed")
  /\ UNCHANGED portal

ChangeZones(regions) ==
  /\ regions # portal.regions /\ signals < MaxUnread
  /\ portal' = [portal EXCEPT !.regions = regions]
  /\ signals' = signals + 1
  /\ UNCHANGED <<loop, clients, sess, failed, notify, release, token, chan, eis, task>>

-----------------------------------------------------------------------------
(* The capture task *)

Call(what, pos) == [what |-> what, pos |-> pos]
Ready == task.up /\ task.call = None
Calls(what) == task.call # None /\ task.call.what = what

CreateCapture(pos) ==
  /\ Ready /\ pos \notin task.captures
  /\ task' = [task EXCEPT !.captures = @ \cup {pos}, !.call = Call("Create", pos)]
  /\ UNCHANGED <<loop, clients, sess, failed, notify, release, token, chan, portal, eis, signals>>

DestroyCapture(pos) ==
  /\ Ready /\ pos \in task.captures
  /\ task' = [task EXCEPT !.captures = @ \ {pos}, !.call = Call("Destroy", pos),
                          !.permit = IF @ = pos THEN None ELSE @]
  /\ UNCHANGED <<loop, clients, sess, failed, notify, release, token, chan, portal, eis, signals>>

(* create and destroy return when there is room for the notice, or no task to read it. *)
NotifySent ==
  /\ Calls("Create") \/ Calls("Destroy")
  /\ loop = "ended" \/ notify = <<>>
  /\ notify' = IF loop = "ended" THEN notify ELSE Append(notify, task.call)
  /\ task' = [task EXCEPT !.call = None]
  /\ UNCHANGED <<loop, clients, sess, failed, release, token, chan, portal, eis, signals>>

(* release, with what the task knows then *)
Release(t) ==
  /\ task' = [t EXCEPT !.call = Call("Release", None)]
  /\ release' = IF loop = "ended" THEN "dropped" ELSE "queued"

(* The service or the peer asks for it. *)
AskRelease ==
  /\ Ready /\ ("idle" \in Circumstances \/ task.captures # {})
  /\ \E permit \in {None, task.permit} : Release([task EXCEPT !.active = None, !.permit = permit])
  /\ UNCHANGED <<loop, clients, sess, failed, notify, token, chan, portal, eis, signals>>

ReleaseReturns ==
  /\ Calls("Release") /\ release \in {"done", "dropped"}
  /\ task' = [task EXCEPT !.call = IF release = "done" THEN None ELSE Call("Terminate", None)]
  /\ token' = (token \/ release = "dropped")
  /\ release' = None
  /\ UNCHANGED <<loop, clients, sess, failed, notify, chan, portal, eis, signals>>

Terminate ==
  /\ Ready
  /\ task' = [task EXCEPT !.call = Call("Terminate", None)]
  /\ token' = TRUE
  /\ UNCHANGED <<loop, clients, sess, failed, notify, release, chan, portal, eis, signals>>

TerminateReturns ==
  /\ Calls("Terminate") /\ loop = "ended"
  /\ task' = [task EXCEPT !.call = None, !.up = FALSE, !.active = None]
  /\ UNCHANGED <<loop, clients, sess, failed, notify, release, token, chan, portal, eis, signals>>

Arm(pos) ==
  /\ task.up /\ pos \in task.captures
  /\ task' = [task EXCEPT !.permit = pos]
  /\ UNCHANGED <<loop, clients, sess, failed, notify, release, token, chan, portal, eis, signals>>

(* handle_capture_event: a Begin takes the permit, and what is not of the active client *)
(* is released.  The wrapper drops events of an edge that has no capture.               *)
ReadEvent ==
  /\ Ready /\ loop # "ended" /\ chan # <<>>
  /\ chan' = Tail(chan)
  /\ LET e == Head(chan)
         Nothing == UNCHANGED <<task, release>>
     IN CASE e.pos \notin task.captures -> Nothing
          [] e.pos \in task.captures /\ e.pos = task.active ->
               Nothing \/ Release([task EXCEPT !.active = None])
          [] e.pos \in task.captures /\ e.pos # task.active /\ e.what = "Begin" /\ e.pos = task.permit ->
               \/ task' = [task EXCEPT !.active = e.pos, !.permit = None] /\ UNCHANGED release
               \/ Release([task EXCEPT !.permit = None])
          [] OTHER -> Release(task)
  /\ UNCHANGED <<loop, clients, sess, failed, notify, token, portal, eis, signals>>

-----------------------------------------------------------------------------
Next ==
  \/ StartTurn \/ CreateSessionFails \/ UpdateEnds \/ ZonesChanged \/ ClientsChanged \/ EndTurn
  \/ Connect \/ UpdateBarriers \/ Enable \/ Listen \/ CallFails
  \/ Activate \/ BeginSent \/ AlreadyLocal \/ TakeRelease \/ DevicesChanged \/ CancelSession
  \/ ReleaseCapture \/ ReleaseFails \/ CancelUpdate \/ ReadEi
  \/ \E id \in DOMAIN sess.barriers : \E point \in Points(sess.barriers[id].line), known \in BOOLEAN :
       CrossBarrier(id, point, known)
  \/ UserInput \/ RemoveDevice \/ CloseConnection
  \/ \E regions \in Layouts : ChangeZones(regions)
  \/ \E pos \in Edges : CreateCapture(pos) \/ DestroyCapture(pos) \/ Arm(pos)
  \/ NotifySent \/ AskRelease \/ ReleaseReturns \/ Terminate \/ TerminateReturns \/ ReadEvent

Spec == Init /\ [][Next]_vars

(* The runtime polls every future that can go on, the portal answers, and a select takes a *)
(* random one of the branches that are ready, so each of them in the long run.             *)
FairSpec ==
  /\ Spec
  /\ WF_vars(StartTurn) /\ WF_vars(UpdateEnds) /\ WF_vars(ZonesChanged) /\ WF_vars(EndTurn)
  /\ WF_vars(Connect) /\ WF_vars(UpdateBarriers) /\ WF_vars(Enable) /\ WF_vars(Listen)
  /\ WF_vars(Activate) /\ WF_vars(BeginSent) /\ WF_vars(DevicesChanged) /\ WF_vars(ReleaseCapture)
  /\ WF_vars(CancelUpdate) /\ WF_vars(ReadEi)
  /\ WF_vars(NotifySent) /\ WF_vars(ReleaseReturns) /\ WF_vars(TerminateReturns)
  /\ SF_vars(ClientsChanged) /\ SF_vars(AlreadyLocal) /\ SF_vars(TakeRelease) /\ SF_vars(CancelSession)

-----------------------------------------------------------------------------
(* Properties *)

(* No notice is on its way. *)
AtRest ==
  /\ notify = <<>> /\ signals = 0 /\ sess.update = "waiting"
  /\ ~Calls("Create") /\ ~Calls("Destroy")


(* While the portal has the pointer, the backend knows it, or is about to read it, or ends *)
(* the session (receive_activated, release_capture).                                       *)
CaptureKnown ==
  portal.crossed # None /\ Steps("waiting") => sess.activated # None

(* The client that is told of a capture is the one at the edge that the pointer has crossed *)
(* (pos_for_barrier_id, find_corresponding_client).                                         *)
EnteredWhereCrossed ==
  portal.crossed # None /\ loop = "session" /\ sess.at \in {"sending", "captured", "releasing"} =>
    sess.pos = portal.crossed

(* create, destroy, release and terminate return to the capture task. *)
CallsReturn == (task.call # None) ~> (task.call = None)

(* The session is of no use any more. *)
Broken == portal.session = "dead" \/ (loop = "session" /\ sess.ei = "done")

(* A session that the compositor has ended, or whose connection is closed, is given up *)
(* (release_session, cancel_session).                                                  *)
SessionReplaced == Broken ~> ~Broken

(* An error of a session reaches the capture task (capture_result). *)
ErrorReported == sess.error ~> failed

(* Everything has been handled. *)
Settled ==
  /\ Ready /\ chan = <<>> /\ eis = <<>> /\ sess.activated = None
  /\ AtRest /\ ~sess.cancelled /\ ~sess.noticed
  /\ Steps("waiting") \/ Steps("captured")

(* When everything has been handled, a capture that the task believes in is one *)
(* (CaptureEvent::Begin).                                                       *)
CaptureIsReal ==
  Settled /\ task.active \in task.captures => portal.crossed = task.active
=============================================================================
