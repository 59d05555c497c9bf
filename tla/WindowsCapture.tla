--------------------------- MODULE WindowsCapture ---------------------------
(* The Windows capture backend.  A thread of its own owns the hooks and the *)
(* state of the capture (input-capture/src/windows/event_thread.rs); it is  *)
(* told what to do by posted messages and reports through a bounded queue   *)
(* (event_queue.rs) to the capture task (lan-mouse/src/capture.rs).  The    *)
(* user moves and types at any time between two messages.                   *)
(*                                                                          *)
(* One session of the backend, with one client per edge.  Displays are      *)
(* intervals of one axis; the code treats the other axis in the same way.   *)
EXTENDS Integers, Sequences, FiniteSets

CONSTANTS
  Left, Right,            \* the edges
  Displays,               \* a sequence of intervals <<left, right>>, right excluded
  Xs,                     \* where the mouse may be moved to
  EDGE_REARM_DISTANCE,
  CRITICAL_EVENT_CAPACITY,
  MaxUpdates,             \* bound: client updates on their way to the thread
  Destroys,               \* TRUE if clients may be removed
  None

Positions == {Left, Right}

VARIABLES
  clients, active, rearm, entry, prev,  \* the thread locals
  queue,    \* the event queue: events, overflowed, closed
  msgs,     \* messages posted to the thread
  updates,  \* request_buffer
  resuming, \* resume_requests
  waiting,  \* what the capture task awaits: "release", "resume" or None
  task,     \* the capture task: its active client, its permit, the edges it has captures for
  focus,    \* history: the edge of the last Begin that the task has read
  owed,     \* history: edges released and since then neither left nor resumed
  session   \* the backend exists

vars == <<clients, active, rearm, entry, prev, queue, msgs, updates, resuming, waiting,
          task, focus, owed, session>>

thread == <<clients, active, rearm, entry, prev>>
requests == <<msgs, updates, resuming, waiting>>

Init ==
  /\ clients = {} /\ active = None /\ rearm = None /\ entry = 0 /\ prev = None
  /\ queue = [events |-> <<>>, overflowed |-> FALSE, closed |-> FALSE]
  /\ msgs = <<>> /\ updates = <<>> /\ resuming = <<>> /\ waiting = None
  /\ task = [active |-> None, permit |-> None, captures |-> {}]
  /\ focus = None /\ owed = {} /\ session = TRUE

-----------------------------------------------------------------------------
(* The event queue *)

IsMotion(e) == e.what = "Motion"
Critical(q) == Len(SelectSeq(q.events, LAMBDA e : ~IsMotion(e)))
Full(q) == q.closed \/ q.overflowed \/ Critical(q) >= CRITICAL_EVENT_CAPACITY

(* Mutant of Push: the oldest event makes room. *)
PushOut(q, e) ==
  IF Critical(q) >= CRITICAL_EVENT_CAPACITY THEN [q EXCEPT !.events = Append(Tail(@), e)]
  ELSE [q EXCEPT !.events = Append(@, e)]

(* Motion replaces motion; without room for a transition everything goes. *)
Push(q, e) ==
  IF q.closed \/ q.overflowed THEN q
  ELSE IF IsMotion(e)
  THEN IF q.events # <<>> /\ IsMotion(q.events[Len(q.events)])
       THEN [q EXCEPT !.events[Len(q.events)] = e]
       ELSE [q EXCEPT !.events = Append(@, e)]
  ELSE IF Full(q) THEN [q EXCEPT !.events = <<>>, !.overflowed = TRUE]
  ELSE [q EXCEPT !.events = Append(@, e)]

(* PushOutcome::Queued *)
Queued(q, e) == ~q.closed /\ ~q.overflowed /\ (IsMotion(e) \/ ~Full(q))

Event(what, pos) == [what |-> what, pos |-> pos]

-----------------------------------------------------------------------------
(* Displays: display_util.rs *)

IsWithinBoundary(x, d, pos) == IF pos = Left THEN d[1] <= x ELSE x < d[2]
IsWithinRegion(x, d) == \A pos \in Positions : IsWithinBoundary(x, d, pos)
InBounds(x, pos) == \E i \in DOMAIN Displays : IsWithinBoundary(x, Displays[i], pos)
InDisplayRegion(x) == \E i \in DOMAIN Displays : IsWithinRegion(x, Displays[i])
MovedAcrossBoundary(from, to, pos) == InDisplayRegion(from) /\ ~InBounds(to, pos)

EnteredBarrier(from, to) ==
  IF MovedAcrossBoundary(from, to, Left) THEN Left
  ELSE IF MovedAcrossBoundary(from, to, Right) THEN Right ELSE None

ClampToDisplayBounds(from, to) ==
  LET first == CHOOSE i \in DOMAIN Displays :
                 /\ IsWithinRegion(from, Displays[i])
                 /\ \A j \in 1..i - 1 : ~IsWithinRegion(from, Displays[j])
      d == Displays[first]
  IN IF to < d[1] THEN d[1] ELSE IF to >= d[2] THEN d[2] - 1 ELSE to

EdgeRetreatObserved(pos, from, to) ==
  IF pos = Left THEN to >= entry + EDGE_REARM_DISTANCE /\ to > from
  ELSE to =< entry - EDGE_REARM_DISTANCE /\ to < from

-----------------------------------------------------------------------------
(* The hooks *)

(* check_client_activation of a move, when no client is active *)
CheckActivation(to) ==
  LET from == IF prev = None THEN to ELSE prev
      pos == EnteredBarrier(from, to)
      retreated == Event("EdgeRetreated", rearm)
      begin == Event("Begin", pos)
  IN IF rearm # None
     THEN /\ IF EdgeRetreatObserved(rearm, from, to)
             THEN /\ queue' = Push(queue, retreated)
                  /\ rearm' = IF Queued(queue, retreated) THEN None ELSE rearm
                  /\ owed' = IF Queued(queue, retreated) THEN owed \ {rearm} ELSE owed
             ELSE UNCHANGED <<queue, rearm, owed>>
          /\ UNCHANGED <<active, entry>>
     ELSE IF pos = None \/ pos \notin clients
     THEN UNCHANGED <<active, rearm, entry, queue, owed>>
     ELSE /\ queue' = Push(queue, begin)
          /\ active' = IF Queued(queue, begin) THEN pos ELSE None
          /\ entry' = ClampToDisplayBounds(from, to)
          /\ UNCHANGED <<rearm, owed>>

(* Mutant of SendInput: the overflow is left to the task. *)
SendInputAnyway(e) ==
  /\ queue' = Push(queue, e)
  /\ UNCHANGED active

(* An event of the active client; without room the capture ends here. *)
SendInput(e) ==
  /\ queue' = Push(queue, e)
  /\ active' = IF Queued(queue, e) THEN active ELSE None

(* mouse_proc of a move, by hand or injected by lan-mouse itself; an injected move of *)
(* an active client is not captured                                                   *)
MouseMove(to, injected) ==
  /\ session
  /\ prev' = to
  /\ IF active = None THEN CheckActivation(to)
     ELSE /\ IF injected THEN UNCHANGED <<queue, active>>
             ELSE SendInput(Event("Motion", active))
          /\ UNCHANGED <<rearm, entry, owed>>
  /\ UNCHANGED <<clients, requests, task, focus, session>>

(* to_key_event, to_mouse_event: a code that has no translation is swallowed. *)
ToKeyEvent(known) == IF known THEN Event("Input", active) ELSE None
ToMouseEvent(known) == IF known THEN Event("Input", active) ELSE None

(* A transition of an active client; without one, it is left to Windows. *)
Captured(e) ==
  /\ IF e = None THEN UNCHANGED <<queue, active>> ELSE SendInput(e)
  /\ UNCHANGED <<clients, rearm, entry, prev, requests, task, focus, owed, session>>

Key(known) == session /\ active # None /\ Captured(ToKeyEvent(known))
MouseButton(known) == session /\ active # None /\ Captured(ToMouseEvent(known))

-----------------------------------------------------------------------------
(* The messages of the thread *)

(* Mutant of HandleRelease: the edge is not barred. *)
HandleReleaseOpen ==
  /\ session /\ msgs # <<>> /\ Head(msgs) = "Release"
  /\ msgs' = Tail(msgs)
  /\ waiting' = None
  /\ owed' = IF active = None THEN owed ELSE owed \cup {active}
  /\ active' = None
  /\ UNCHANGED <<clients, rearm, entry, prev, queue, updates, resuming, task, focus, session>>

HandleRelease ==
  /\ session /\ msgs # <<>> /\ Head(msgs) = "Release"
  /\ msgs' = Tail(msgs)
  /\ waiting' = None
  /\ rearm' = IF active = None THEN rearm ELSE active
  /\ owed' = IF active = None THEN owed ELSE owed \cup {active}
  /\ active' = None
  /\ UNCHANGED <<clients, entry, prev, queue, updates, resuming, task, focus, session>>

HandleResume ==
  /\ session /\ msgs # <<>> /\ Head(msgs) = "ResumeIfFocused"
  /\ msgs' = Tail(msgs)
  /\ resuming' = <<>> /\ waiting' = None
  /\ LET pos == Head(resuming)
         begin == Event("Begin", pos)
     IN IF active = None /\ rearm = pos
        THEN /\ queue' = Push(queue, begin)
             /\ active' = IF Queued(queue, begin) THEN pos ELSE None
             /\ rearm' = IF Queued(queue, begin) THEN None ELSE rearm
             /\ owed' = IF Queued(queue, begin) THEN owed \ {pos} ELSE owed
        ELSE UNCHANGED <<queue, active, rearm, owed>>
  /\ UNCHANGED <<clients, entry, prev, updates, task, focus, session>>

(* update_clients *)
Updated(s, u) ==
  IF u.create THEN [s EXCEPT !.clients = @ \cup {u.pos}]
  ELSE [clients |-> s.clients \ {u.pos},
        active |-> IF s.active = u.pos THEN None ELSE s.active,
        rearm |-> IF s.rearm = u.pos THEN None ELSE s.rearm]

HandleClientUpdate ==
  /\ session /\ msgs # <<>> /\ Head(msgs) = "ClientUpdate"
  /\ msgs' = Tail(msgs)
  /\ updates' = <<>>
  /\ LET apply[n \in 0..Len(updates)] ==
           IF n = 0 THEN [clients |-> clients, active |-> active, rearm |-> rearm]
           ELSE Updated(apply[n - 1], updates[n])
         s == apply[Len(updates)]
     IN /\ clients' = s.clients /\ active' = s.active /\ rearm' = s.rearm
        /\ owed' = {p \in owed : \A n \in DOMAIN updates : updates[n].pos # p \/ updates[n].create}
  /\ UNCHANGED <<entry, prev, queue, resuming, waiting, task, focus, session>>

-----------------------------------------------------------------------------
(* The capture task *)

Ready == session /\ waiting = None

Signal(m) == msgs' = Append(msgs, m)

(* capture.release().await *)
Release == Signal("Release") /\ waiting' = "release" /\ UNCHANGED <<updates, resuming>>

(* poll, and handle_capture_event of the event. An event of an edge that has no capture *)
(* any more is looked at in CaptureRegistry.                                            *)
ReadEvent ==
  /\ Ready /\ ~queue.overflowed /\ queue.events # <<>>
  /\ queue' = [queue EXCEPT !.events = Tail(@)]
  /\ LET e == Head(queue.events) IN
     /\ focus' = IF e.what = "Begin" THEN e.pos ELSE focus
     /\ IF e.pos \notin task.captures
        THEN UNCHANGED <<task, requests>>
        ELSE IF e.what = "EdgeRetreated"
        THEN IF task.active = e.pos
             THEN task' = [task EXCEPT !.active = None] /\ Release
             ELSE UNCHANGED <<task, requests>>
        ELSE IF e.what = "Begin" /\ task.active # e.pos
        THEN \/ /\ task.permit = e.pos
                /\ task' = [task EXCEPT !.active = e.pos, !.permit = None]
                /\ UNCHANGED requests
             \/ task' = [task EXCEPT !.permit = IF @ = e.pos THEN None ELSE @] /\ Release
        ELSE IF task.active # e.pos THEN UNCHANGED task /\ Release
        ELSE UNCHANGED <<task, requests>>
  /\ UNCHANGED <<thread, owed, session>>

(* CriticalQueueOverflow ends the session: the thread is told to exit and joined, its *)
(* hooks are gone, and the queue is closed.                                           *)
ReadOverflow ==
  /\ Ready /\ queue.overflowed
  /\ queue' = [queue EXCEPT !.overflowed = FALSE, !.closed = TRUE]
  /\ active' = None
  /\ session' = FALSE
  /\ UNCHANGED <<clients, rearm, entry, prev, requests, task, focus, owed>>

(* release_capture, on any of its reasons; a release of the service clears the gate. *)
ReleaseCapture ==
  /\ Ready
  /\ task' = [task EXCEPT !.active = None, !.permit = None]
  /\ Release
  /\ UNCHANGED <<thread, queue, focus, owed, session>>

(* The service has a grant: a permit is armed and the capture resumed. *)
Resume(pos) ==
  /\ Ready /\ pos \in task.captures /\ task.permit = None
  /\ task' = [task EXCEPT !.permit = pos]
  /\ resuming' = Append(resuming, pos)
  /\ Signal("ResumeIfFocused")
  /\ waiting' = "resume"
  /\ UNCHANGED <<thread, queue, updates, focus, owed, session>>

CreateCapture(pos) ==
  /\ Ready /\ pos \notin task.captures /\ Len(msgs) < MaxUpdates
  /\ task' = [task EXCEPT !.captures = @ \cup {pos}]
  /\ updates' = Append(updates, [create |-> TRUE, pos |-> pos])
  /\ Signal("ClientUpdate")
  /\ UNCHANGED <<thread, queue, resuming, waiting, focus, owed, session>>

DestroyCapture(pos) ==
  /\ Destroys /\ Ready /\ pos \in task.captures /\ Len(msgs) < MaxUpdates
  /\ task' = [task EXCEPT !.captures = @ \ {pos}, !.permit = IF @ = pos THEN None ELSE @]
  /\ updates' = Append(updates, [create |-> FALSE, pos |-> pos])
  /\ Signal("ClientUpdate")
  /\ UNCHANGED <<thread, queue, resuming, waiting, focus, owed, session>>

Next ==
  \/ \E to \in Xs, injected \in BOOLEAN : MouseMove(to, injected)
  \/ \E known \in BOOLEAN : Key(known)
  \/ \E known \in BOOLEAN : MouseButton(known)
  \/ HandleRelease \/ HandleResume \/ HandleClientUpdate
  \/ ReadEvent \/ ReadOverflow \/ ReleaseCapture
  \/ \E pos \in Positions : Resume(pos)
  \/ \E pos \in Positions : CreateCapture(pos)
  \/ \E pos \in Positions : DestroyCapture(pos)

Spec == Init /\ [][Next]_vars

(* The thread handles its messages. *)
FairSpec == Spec /\ WF_vars(HandleRelease) /\ WF_vars(HandleResume) /\ WF_vars(HandleClientUpdate)

-----------------------------------------------------------------------------
(* Properties *)

(* Whatever is dropped, the task reads an input only after the Begin of the same edge   *)
(* (EventQueue::push clears everything on overflow; the hooks end the capture then).   *)
InputsFollowBegin ==
  \A i \in DOMAIN queue.events :
    queue.events[i].what \in {"Input", "Motion"} =>
      LET begins == {j \in 1..i - 1 : queue.events[j].what = "Begin"}
          last == CHOOSE j \in begins : \A k \in begins : k =< j
      IN queue.events[i].pos = IF begins = {} THEN focus ELSE queue.events[last].pos

(* Nothing is captured while events are lost: the input is local until the task has     *)
(* read the overflow (send_event in mouse_proc, kybrd_proc, check_client_activation).   *)
OverflowLocal == queue.overflowed => active = None

(* An edge that was released is not captured again before the pointer has moved away    *)
(* from it, or the service has asked for it (REARM_CLIENT).                             *)
NoEntryWithoutRetreat == active \notin owed

(* Everything has been handled. *)
Settled == session /\ waiting = None /\ msgs = <<>> /\ queue.events = <<>> /\ ~queue.overflowed

(* A capture that the task believes in and the thread has given up is reported at the   *)
(* next retreat: the thread still watches its edge (EdgeRetreated; LocalCaptureLost in  *)
(* handle_capture_event).                                                               *)
LossReported == Settled /\ task.active # None => task.active \in {active, rearm}

(* A release returns, whether or not anything was captured (release_waiters). *)
ReleaseCompletes == (waiting = "release") ~> (waiting = None)
=============================================================================
