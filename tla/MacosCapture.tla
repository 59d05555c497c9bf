---------------------------- MODULE MacosCapture ----------------------------
(* The macOS capture backend (input-capture/src/macos.rs).  The callback of *)
(* the event tap runs on a thread of its own; a task of the runtime handles *)
(* what the callback and the capture task tell it.  Both work on one state  *)
(* under a lock, which the callback keeps while it waits for room in the    *)
(* event channel.                                                           *)
(*                                                                          *)
(* Displays are intervals of one axis; the code treats the other axis in    *)
(* the same way.  One modifier stands for all of them.                      *)
EXTENDS Integers, Sequences, FiniteSets

CONSTANTS
  Left, Right,         \* the edges
  Edges,               \* the edges that may have a client
  Topologies,          \* sets of displays <<xmin, width>>
  Xs, Deltas,          \* locations and relative motions of the pointer
  EDGE_REARM_DISTANCE,
  Capacity,            \* of the event channel
  MaxNotify,           \* bound: producer events on their way
  Flood,               \* FALSE if the user acts only while the channel has room
  CursorResults,       \* whether hiding and showing the cursor can fail
  LocalTyping,         \* TRUE if modifiers change while nothing is captured
  StartupChange,       \* TRUE if displays may change while the backend starts
  None

VARIABLES
  st,       \* InputCaptureState
  notify,   \* the producer events
  out,      \* what the callback has yet to send; while there is any, it holds the lock
  chan,     \* the event channel
  tap,      \* the event tap: "on", "timeout" or "dead"
  hidden,   \* how often the cursor is hidden
  displays, \* the active displays
  flags,    \* the modifier is down
  waiting,  \* what the capture task awaits: "release", "resume", "failed" or None
  task,     \* the capture task: its active client, its permit, the edges it has captures for
  owed,     \* history: edges released and since then neither left nor resumed
  session   \* "waiting" for a display, "starting", "running" or "closed"

vars == <<st, notify, out, chan, tap, hidden, displays, flags, waiting, task, owed,
          session>>

Event(what, pos) == [what |-> what, pos |-> pos]
Produced(what, pos) == [what |-> what, pos |-> pos]

-----------------------------------------------------------------------------
(* Geometry *)

(* Mutant of CoveringBounds: the first display counts. *)
CoveringFirst(ds) == LET d == CHOOSE d \in ds : TRUE IN [xmin |-> d[1], xmax |-> d[1] + d[2]]

CoveringBounds(ds) ==
  [xmin |-> CHOOSE x \in {d[1] : d \in ds} : \A d \in ds : x =< d[1],
   xmax |-> CHOOSE x \in {d[1] + d[2] : d \in ds} : \A d \in ds : x >= d[1] + d[2]]

(* Without a display the bounds stay as they are. *)
UpdateBounds(s, ds) == IF ds = {} THEN s ELSE [s EXCEPT !.bounds = CoveringBounds(ds)]

Crossed(x, dx) ==
  {pos \in st.clients : IF pos = Left THEN x + dx =< st.bounds.xmin
                        ELSE x + dx >= st.bounds.xmax}

EdgeRetreatObserved(pos, x, dx) ==
  IF pos = Left THEN dx > 0 /\ x >= st.bounds.xmin + EDGE_REARM_DISTANCE
  ELSE dx < 0 /\ x =< st.bounds.xmax - EDGE_REARM_DISTANCE

(* start_capture: the cursor is kept one column inside of the edge. *)
EnterPosition(pos) == IF pos = Left THEN st.bounds.xmin + 1 ELSE st.bounds.xmax - 1

-----------------------------------------------------------------------------
(* The start of the backend *)

Init ==
  /\ st = [clients |-> {}, current |-> None, enter |-> None, rearm |-> None,
           bounds |-> None, mods |-> FALSE]
  /\ notify = <<>> /\ out = <<>> /\ chan = <<>> /\ tap = "on" /\ hidden = 0
  /\ displays \in Topologies /\ flags = FALSE /\ waiting = None
  /\ task = [active |-> None, permit |-> None, captures |-> {}]
  /\ owed = {} /\ session = "waiting"

(* InputCaptureState::new, tried again until there is a display *)
NewState ==
  /\ session = "waiting" /\ displays # {}
  /\ st' = UpdateBounds(st, displays)
  /\ session' = "starting"
  /\ UNCHANGED <<notify, out, chan, tap, hidden, displays, flags, waiting, task, owed>>

(* The permissions are missing. *)
Refused ==
  /\ session = "waiting"
  /\ session' = "closed"
  /\ UNCHANGED <<st, notify, out, chan, tap, hidden, displays, flags, waiting, task, owed>>

(* event_tap_thread registers for changes of the displays and runs its loop. *)
StartTap ==
  /\ session = "starting"
  /\ session' = "running"
  /\ UNCHANGED <<st, notify, out, chan, tap, hidden, displays, flags, waiting, task, owed>>

(* The displays change; display_reconfiguration_callback, once it is registered *)
Reconfigure(ds) ==
  /\ session # "closed" /\ ds # displays
  /\ session = "starting" => StartupChange
  /\ session = "running" => Len(notify) < MaxNotify
  /\ displays' = ds
  /\ notify' = IF session = "running" THEN Append(notify, Produced("DisplayReconfigured", None))
               ELSE notify
  /\ UNCHANGED <<st, out, chan, tap, hidden, flags, waiting, task, owed, session>>

-----------------------------------------------------------------------------
(* get_events *)

KeyEvents(known) == IF known THEN <<Event("Input", st.current)>> ELSE <<>>
ButtonEvents == <<Event("Input", st.current)>>
MotionEvents == <<Event("Input", st.current)>>
ScrollEvents(vertical, horizontal) ==
  [i \in 1..Cardinality({k \in {1, 2} : IF k = 1 THEN vertical ELSE horizontal}) |->
     Event("Input", st.current)]

(* Mutant of FlagsEvents: the modifiers are remembered before they are compared. *)
FlagsEventsLate(down, known) ==
  (IF known THEN <<Event("Release", st.current)>> ELSE <<>>) \o <<Event("Input", st.current)>>

(* The key of a changed modifier, when it has a translation, and the modifiers *)
FlagsEvents(down, known) ==
  LET pressed == down /\ ~st.mods
      key == Event(IF pressed THEN "Press" ELSE "Release", st.current)
  IN (IF known THEN <<key>> ELSE <<>>) \o <<Event("Input", st.current)>>

-----------------------------------------------------------------------------
(* The callback of the tap *)

(* The lock is free, and the tap delivers events. *)
Delivers ==
  /\ session = "running" /\ tap = "on" /\ out = <<>>
  /\ Flood \/ Len(chan) + 2 =< Capacity

(* dispatch_capture_events: the callback sends them one by one. *)
Dispatch(events) == out' = events

Captures(events) ==
  /\ Dispatch(events)
  /\ UNCHANGED <<notify, chan, tap, hidden, displays, waiting, task, owed, session>>

(* An event of lan-mouse itself that does not drive the return barrier is left alone. *)
DrivesReturnBarrier(own) == own => st.current = None

(* crossing_requires_native_grab *)
RequiresNativeGrab(own) == ~own

MouseMoved(x, dx, own) ==
  /\ Delivers /\ DrivesReturnBarrier(own)
  /\ IF st.current # None
     THEN Dispatch(MotionEvents) /\ UNCHANGED <<st, notify, owed>>
     ELSE IF st.rearm # None
     THEN /\ EdgeRetreatObserved(st.rearm, x, dx)
          /\ Dispatch(<<Event("EdgeRetreated", st.rearm)>>)
          /\ st' = [st EXCEPT !.rearm = None]
          /\ owed' = owed \ {st.rearm}
          /\ UNCHANGED notify
     ELSE \E pos \in Crossed(x, dx) :
          /\ Dispatch(<<Event("Begin", pos)>>)
          /\ IF RequiresNativeGrab(own)
             THEN /\ Len(notify) < MaxNotify
                  /\ st' = [st EXCEPT !.enter = EnterPosition(pos)]
                  /\ notify' = Append(notify, Produced("Grab", pos))
             ELSE UNCHANGED <<st, notify>>
          /\ UNCHANGED owed
  /\ UNCHANGED <<chan, tap, hidden, displays, flags, waiting, task, session>>

Dragged == Delivers /\ st.current # None /\ Captures(MotionEvents) /\ UNCHANGED <<st, flags>>
Key(known) == Delivers /\ st.current # None /\ Captures(KeyEvents(known)) /\ UNCHANGED <<st, flags>>
Button == Delivers /\ st.current # None /\ Captures(ButtonEvents) /\ UNCHANGED <<st, flags>>
Scroll(v, h) ==
  Delivers /\ st.current # None /\ Captures(ScrollEvents(v, h)) /\ UNCHANGED <<st, flags>>

(* The modifier goes down or up. *)
FlagsChanged(known) ==
  /\ Delivers
  /\ flags' = ~flags
  /\ IF st.current # None
     THEN Captures(FlagsEvents(~flags, known)) /\ st' = [st EXCEPT !.mods = ~flags]
     ELSE LocalTyping /\ Captures(<<>>) /\ UNCHANGED st

(* event_tx.blocking_send, under the lock *)
BlockingSend ==
  /\ session = "running" /\ out # <<>> /\ Len(chan) < Capacity
  /\ chan' = Append(chan, Head(out))
  /\ out' = Tail(out)
  /\ UNCHANGED <<st, notify, tap, hidden, displays, flags, waiting, task, owed, session>>

(* The kernel disables the tap of a callback that takes too long. *)
TapTimesOut ==
  /\ session = "running" /\ tap = "on" /\ out # <<>>
  /\ tap' = "timeout"
  /\ UNCHANGED <<st, notify, out, chan, hidden, displays, flags, waiting, task, owed, session>>

(* TapDisabledByTimeout *)
ReenableTap ==
  /\ session = "running" /\ tap = "timeout" /\ out = <<>>
  /\ tap' = "on"
  /\ UNCHANGED <<st, notify, out, chan, hidden, displays, flags, waiting, task, owed, session>>

Shown(ok) == IF ok /\ hidden > 0 THEN hidden - 1 ELSE hidden

(* TapDisabledByUserInput *)
TapDisabled(ok) ==
  /\ session = "running" /\ tap = "on" /\ out = <<>>
  /\ tap' = "dead"
  /\ st' = [st EXCEPT !.current = None]
  /\ hidden' = IF st.current # None THEN Shown(ok) ELSE hidden
  /\ notify' = Append(notify, Produced("EventTapDisabled", None))
  /\ UNCHANGED <<out, chan, displays, flags, waiting, task, owed, session>>

-----------------------------------------------------------------------------
(* handle_producer_event, with the lock; a failure is logged. *)

Produces(what) ==
  /\ session = "running" /\ out = <<>> /\ notify # <<>> /\ Head(notify).what = what
  /\ notify' = Tail(notify)
  /\ UNCHANGED <<out, tap, displays, flags, session>>


(* Mutant of HandleRelease: only a capture that was released is reported. *)
HandleReleaseOfCurrent(ok) ==
  /\ Produces("Release")
  /\ IF st.current # None
     THEN /\ hidden' = Shown(ok)
          /\ st' = [st EXCEPT !.current = None, !.rearm = IF ok THEN st.current ELSE @]
          /\ waiting' = IF ok THEN None ELSE "failed"
          /\ owed' = IF ok THEN owed \cup {st.current} ELSE owed
     ELSE UNCHANGED <<st, hidden, waiting, owed>>
  /\ UNCHANGED <<chan, task>>

HandleRelease(ok) ==
  /\ Produces("Release")
  /\ IF st.current # None
     THEN /\ hidden' = Shown(ok)
          /\ st' = [st EXCEPT !.current = None, !.rearm = IF ok THEN st.current ELSE @]
          /\ waiting' = IF ok THEN None ELSE "failed"
          /\ owed' = IF ok THEN owed \cup {st.current} ELSE owed
     ELSE waiting' = None /\ UNCHANGED <<st, hidden, owed>>
  /\ UNCHANGED <<chan, task>>

(* A Begin that finds no room leaves the input local. *)
HandleResume(hide, show) ==
  /\ Produces("ResumeIfFocused")
  /\ waiting' = None
  /\ LET pos == Head(notify).pos IN
     IF st.current # None \/ st.rearm # pos \/ ~hide
     THEN UNCHANGED <<st, hidden, chan, owed>>
     ELSE IF Len(chan) < Capacity
     THEN /\ chan' = Append(chan, Event("Begin", pos))
          /\ st' = [st EXCEPT !.current = pos, !.rearm = None]
          /\ hidden' = hidden + 1
          /\ owed' = owed \ {pos}
     ELSE /\ hidden' = IF show THEN hidden ELSE hidden + 1
          /\ st' = IF show THEN st ELSE [st EXCEPT !.current = pos, !.rearm = None]
          /\ owed' = IF show THEN owed ELSE owed \ {pos}
          /\ UNCHANGED chan
  /\ UNCHANGED task

(* Mutant of HandleGrab: whatever is captured already. *)
HandleGrabAgain(ok) ==
  /\ Produces("Grab")
  /\ IF ok
     THEN /\ hidden' = hidden + 1
          /\ st' = [st EXCEPT !.current = Head(notify).pos, !.rearm = None]
     ELSE UNCHANGED <<st, hidden>>
  /\ UNCHANGED <<chan, waiting, task, owed>>

HandleGrab(ok) ==
  /\ Produces("Grab")
  /\ IF st.current = None /\ ok
     THEN /\ hidden' = hidden + 1
          /\ st' = [st EXCEPT !.current = Head(notify).pos, !.rearm = None]
     ELSE UNCHANGED <<st, hidden>>
  /\ UNCHANGED <<chan, waiting, task, owed>>

HandleCreate ==
  /\ Produces("Create")
  /\ st' = [st EXCEPT !.clients = @ \cup {Head(notify).pos}]
  /\ UNCHANGED <<chan, hidden, waiting, task, owed>>

HandleDestroy(ok) ==
  /\ Produces("Destroy")
  /\ LET pos == Head(notify).pos IN
     IF st.current = pos /\ ~ok
     THEN UNCHANGED <<st, hidden, owed>>
     ELSE /\ hidden' = IF st.current = pos THEN Shown(TRUE) ELSE hidden
          /\ st' = [st EXCEPT !.clients = @ \ {pos},
                              !.current = IF @ = pos THEN None ELSE @,
                              !.rearm = IF @ = pos THEN None ELSE @]
          /\ owed' = owed \ {pos}
  /\ UNCHANGED <<chan, waiting, task>>

HandleTapDisabled(ok) ==
  /\ Produces("EventTapDisabled")
  /\ IF st.current # None /\ ~ok
     THEN UNCHANGED <<st, hidden, owed>>
     ELSE /\ hidden' = IF st.current # None THEN Shown(TRUE) ELSE hidden
          /\ st' = [st EXCEPT !.current = None, !.rearm = None]
          /\ owed' = {}
  /\ UNCHANGED <<chan, waiting, task>>

HandleReconfigured ==
  /\ Produces("DisplayReconfigured")
  /\ st' = UpdateBounds([st EXCEPT !.rearm = None], displays)
  /\ owed' = {}
  /\ UNCHANGED <<chan, hidden, waiting, task>>

-----------------------------------------------------------------------------
(* The capture task *)

Ready == session = "running" /\ waiting = None

(* capture.release().await *)
Release == notify' = Append(notify, Produced("Release", None)) /\ waiting' = "release"

Stays == UNCHANGED <<task, notify, waiting>>

(* poll_next, and handle_capture_event of the event. An event of an edge that has no *)
(* capture any more is looked at in CaptureRegistry.                                 *)
ReadEvent ==
  /\ Ready /\ chan # <<>>
  /\ chan' = Tail(chan)
  /\ LET e == Head(chan) IN
     IF e.pos \notin task.captures THEN Stays
        ELSE IF e.what = "EdgeRetreated"
        THEN IF task.active = e.pos
             THEN task' = [task EXCEPT !.active = None] /\ Release
             ELSE Stays
        ELSE IF e.what = "Begin" /\ task.active # e.pos
        THEN \/ /\ task.permit = e.pos
                /\ task' = [task EXCEPT !.active = e.pos, !.permit = None]
                /\ UNCHANGED <<notify, waiting>>
             \/ task' = [task EXCEPT !.permit = IF @ = e.pos THEN None ELSE @] /\ Release
        ELSE IF task.active # e.pos THEN UNCHANGED task /\ Release
        ELSE Stays
  /\ UNCHANGED <<st, out, tap, hidden, displays, flags, owed, session>>

(* release_capture, on any of its reasons; a release of the service clears the gate. *)
ReleaseCapture ==
  /\ Ready
  /\ task' = [task EXCEPT !.active = None, !.permit = None]
  /\ Release
  /\ UNCHANGED <<st, out, chan, tap, hidden, displays, flags, owed, session>>

(* The service has a grant: a permit is armed and the capture resumed. *)
Resume(pos) ==
  /\ Ready /\ pos \in task.captures /\ task.permit = None
  /\ task' = [task EXCEPT !.permit = pos]
  /\ notify' = Append(notify, Produced("ResumeIfFocused", pos))
  /\ waiting' = "resume"
  /\ UNCHANGED <<st, out, chan, tap, hidden, displays, flags, owed, session>>

CreateCapture(pos) ==
  /\ Ready /\ pos \notin task.captures /\ Len(notify) < MaxNotify
  /\ task' = [task EXCEPT !.captures = @ \cup {pos}]
  /\ notify' = Append(notify, Produced("Create", pos))
  /\ UNCHANGED <<st, out, chan, tap, hidden, displays, flags, waiting, owed, session>>

DestroyCapture(pos) ==
  /\ Ready /\ pos \in task.captures /\ Len(notify) < MaxNotify
  /\ task' = [task EXCEPT !.captures = @ \ {pos}, !.permit = IF @ = pos THEN None ELSE @]
  /\ notify' = Append(notify, Produced("Destroy", pos))
  /\ UNCHANGED <<st, out, chan, tap, hidden, displays, flags, waiting, owed, session>>

(* The session ends, by itself or by a release that failed: the run loop is stopped and *)
(* the task of the backend shows the cursor.                                            *)
Close(ok) ==
  /\ session = "running" /\ waiting \in {None, "failed"}
  /\ session' = "closed"
  /\ hidden' = Shown(ok)
  /\ UNCHANGED <<st, notify, out, chan, tap, displays, flags, waiting, task, owed>>

-----------------------------------------------------------------------------
Next ==
  \/ NewState \/ Refused \/ StartTap
  \/ \E ds \in Topologies : Reconfigure(ds)
  \/ \E x \in Xs, dx \in Deltas, own \in BOOLEAN : MouseMoved(x, dx, own)
  \/ Dragged \/ Button
  \/ \E known \in BOOLEAN : Key(known)
  \/ \E v, h \in BOOLEAN : Scroll(v, h)
  \/ \E known \in BOOLEAN : FlagsChanged(known)
  \/ BlockingSend \/ TapTimesOut \/ ReenableTap
  \/ \E ok \in CursorResults : TapDisabled(ok)
  \/ \E ok \in CursorResults : HandleRelease(ok)
  \/ \E hide, show \in CursorResults : HandleResume(hide, show)
  \/ \E ok \in CursorResults : HandleGrab(ok)
  \/ HandleCreate
  \/ \E ok \in CursorResults : HandleDestroy(ok)
  \/ \E ok \in CursorResults : HandleTapDisabled(ok)
  \/ HandleReconfigured
  \/ ReadEvent \/ ReleaseCapture
  \/ \E pos \in Edges : Resume(pos)
  \/ \E pos \in Edges : CreateCapture(pos)
  \/ \E pos \in Edges : DestroyCapture(pos)
  \/ \E ok \in CursorResults : Close(ok)

Spec == Init /\ [][Next]_vars

Handle ==
  \/ \E ok \in CursorResults :
       HandleRelease(ok) \/ HandleGrab(ok) \/ HandleDestroy(ok) \/ HandleTapDisabled(ok)
  \/ \E hide, show \in CursorResults : HandleResume(hide, show)
  \/ HandleCreate \/ HandleReconfigured

(* The thread sends what there is room for, and the lock is fair: it is given to whoever *)
(* has waited longest (tokio::sync::Mutex), so the task gets it between two callbacks.   *)
FairSpec == Spec /\ WF_vars(BlockingSend) /\ SF_vars(Handle)

-----------------------------------------------------------------------------
(* Properties *)

(* The cursor is hidden once while something is captured, and otherwise shown, also after *)
(* the session (hide_cursor and show_cursor, which macOS counts).                         *)
CursorFollowsCapture ==
  hidden = IF session # "closed" /\ st.current # None THEN 1 ELSE 0

(* reset_cursor finds a position: its expect("capture active") never fails. *)
CursorHasPlace == st.current # None => st.enter # None

(* Once the changes of the displays are handled, the barriers are at the outer edges of *)
(* all displays (update_bounds, display_reconfiguration_callback).                      *)
BoundsCover ==
  session = "running" /\ displays # {} /\ (\A i \in DOMAIN notify : notify[i].what # "DisplayReconfigured") =>
    /\ \A d \in displays : st.bounds.xmin =< d[1] /\ d[1] + d[2] =< st.bounds.xmax
    /\ \E d \in displays : st.bounds.xmin = d[1]
    /\ \E d \in displays : st.bounds.xmax = d[1] + d[2]

(* A release returns, whether or not anything was captured (release, ProducerEvent::Release). *)
ReleaseReturns == (waiting = "release") ~> (waiting # "release")

TellsModifier ==
  \A i \in DOMAIN out' :
    flags' # flags /\ out'[i].what \in {"Press", "Release"} => (out'[i].what = "Press") = flags'

(* A forwarded key event of a modifier says what the user did with it (get_events). *)
ModifierTold == [][TellsModifier]_vars

(* An edge that was released is not captured again before the pointer has moved away *)
(* from it, or the service has asked for it (rearm_pos).                             *)
NoEntryWithoutRetreat == st.current \notin owed

(* Everything has been handled. *)
Settled == session = "running" /\ waiting = None /\ notify = <<>> /\ out = <<>> /\ chan = <<>>

(* The capture task does not go on as if it had the input of a tap that is gone. *)
TapLossReported == Settled /\ tap = "dead" => task.active = None
=============================================================================
