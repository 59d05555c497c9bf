----------------------------- MODULE LayerShell -----------------------------
(* The Wayland capture backend (input-capture/src/layer_shell.rs): a thin   *)
(* window along every outer edge of the outputs.  When the pointer enters   *)
(* one, the backend asks for the keyboard and a lock of the pointer, and    *)
(* reports the capture once the compositor has confirmed the lock.          *)
(*                                                                          *)
(* The compositor's messages wait in a queue until the backend dispatches   *)
(* them, all at a time.  A request of the backend takes effect at once:     *)
(* what the compositor sent before it saw the request is in the queue.      *)
(* Outputs are intervals of one axis; the code treats the other axis in the *)
(* same way.  The pointer lock stands for the relative pointer and the      *)
(* shortcut inhibitor too, which are made and destroyed with it.            *)
EXTENDS Integers, Sequences, SequencesExt, FiniteSets

CONSTANTS
  Left, Right,     \* the edges
  Edges,           \* the edges that may have a client
  Outputs,         \* outputs [name, x, width] that may appear, one or more for a name
  Destroys,        \* TRUE if clients may be removed
  Removals,        \* TRUE if outputs may be removed
  MaxMessages,     \* bound: messages and events that wait
  MaxLocks,        \* bound: pointer locks
  MaxChanges,      \* bound: changes of the outputs
  None

VARIABLES
  c,        \* the backend: State of layer_shell.rs
  inbox,    \* messages of the compositor
  at,       \* the window that the pointer is on
  locked,   \* the lock that the compositor has activated, while it is active
  granted,  \* history: locks that the compositor has activated at some time
  screen,   \* the outputs, as the compositor has them
  changes,  \* how often they have changed
  task,     \* the capture task: its active client, its permit, the edges it has captures for
  resuming  \* the edge of a resume that waits for its roundtrip, or None

vars == <<c, inbox, at, locked, granted, screen, changes, task, resuming>>

(* An event, and the lock that was held or asked for; of a retreat, the message that told it *)
Event(what, pos, by) == [what |-> what, pos |-> pos, by |-> by]
Message(m, arg) == [m |-> m, arg |-> arg]

-----------------------------------------------------------------------------
(* Windows *)

Opposite(pos) == IF pos = Left THEN Right ELSE Left
Edge(o, pos) == IF pos = Left THEN o.x ELSE o.x + o.width
GetEdges(outs, pos) == {Edge(o, pos) : o \in outs}

(* Without the edges at which another output begins *)
GetOutputConfiguration(outs, pos) == {o \in outs : Edge(o, pos) \notin GetEdges(outs, Opposite(pos))}

NewWindow(s, o, pos) == [pos |-> pos, output |-> o, gen |-> s.gen]

AddClient(s, pos) ==
  [s EXCEPT !.active = @ \cup {pos},
            !.windows = @ \cup {NewWindow(s, o, pos) : o \in GetOutputConfiguration(s.outs, pos)}]

(* Mutant of UpdateWindows: the windows stay. *)
UpdateWindowsLate(s) == [s EXCEPT !.gen = @ + 1]

UpdateWindows(s) ==
  LET t == [s EXCEPT !.windows = {}, !.gen = @ + 1] IN FoldLeft(AddClient, t, SetToSeq(s.active))

DeleteClient(s, pos) ==
  LET gone == {w \in s.windows : w.pos = pos} IN
  [s EXCEPT !.active = @ \ {pos}, !.windows = @ \ gone, !.focused = IF gone = {} THEN @ ELSE None]

(* A window lives as long as it is listed or focused. *)
Alive(s, w) == w # None /\ (w \in s.windows \/ w = s.focused)

-----------------------------------------------------------------------------
(* The grab *)

Grab(s) ==
  LET t == [s EXCEPT !.keyboard = s.focused] IN
  IF t.lock # None THEN t
  ELSE [t EXCEPT !.lock = t.next, !.next = @ + 1, !.lockState = "Pending", !.lockOn = s.focused]

Ungrab(s) ==
  IF s.focused = None THEN s
  ELSE [s EXCEPT !.keyboard = IF @ = s.focused THEN None ELSE @,
                 !.lock = None, !.lockState = "Released", !.lockOn = None, !.begin = None]

(* queue_confirmed_begin: before the inputs of the same edge *)
QueueConfirmedBegin(s, pos) ==
  LET inputs == {i \in DOMAIN s.pending : s.pending[i].pos = pos /\ s.pending[i].what = "Input"}
      n == IF inputs = {} THEN Len(s.pending) + 1
           ELSE CHOOSE i \in inputs : \A j \in inputs : i =< j
  IN [s EXCEPT !.pending = InsertAt(@, n, Event("Begin", pos, s.lock))]

BeginWhenPointerLocked(s, pos) ==
  IF s.lockState = "Locked" THEN QueueConfirmedBegin(s, pos) ELSE [s EXCEPT !.begin = pos]

(* confirm_pointer_lock *)
PointerLocked(s) ==
  LET t == [s EXCEPT !.lockState = "Locked", !.begin = None] IN
  IF s.begin = None THEN t ELSE QueueConfirmedBegin(t, s.begin)


CurrentPointerLock(s, id) == s.lock = id

Queue(s, e) == [s EXCEPT !.pending = Append(@, e)]

-----------------------------------------------------------------------------
(* Messages of the compositor *)

OnEnter(s, w) ==
  IF w \notin s.windows THEN s
  ELSE BeginWhenPointerLocked(Grab([s EXCEPT !.focused = w]), w.pos)

(* Mutant of OnLeave: the grab is kept. *)
OnLeaveGrabbed(s) ==
  LET t == [s EXCEPT !.focused = None] IN
  IF s.focused = None THEN t ELSE Queue(t, Event("EdgeRetreated", s.focused.pos, "Leave"))

OnLeave(s) ==
  LET t == [Ungrab(s) EXCEPT !.focused = None] IN
  IF s.focused = None THEN t ELSE Queue(t, Event("EdgeRetreated", s.focused.pos, "Leave"))

(* A button expects a focused window. *)
OnButton(s) ==
  IF s.focused = None THEN [s EXCEPT !.panic = TRUE]
  ELSE Queue(s, Event("Input", s.focused.pos, s.lock))

OnAxis120(s) ==
  IF s.focused = None THEN [s EXCEPT !.panic = TRUE]
  ELSE Queue([s EXCEPT !.discrete = TRUE], Event("Input", s.focused.pos, s.lock))

(* The axis event that belongs to a discrete one is left out. *)
OnAxis(s) ==
  IF s.focused = None THEN [s EXCEPT !.panic = TRUE]
  ELSE IF s.discrete THEN [s EXCEPT !.discrete = FALSE]
  ELSE Queue(s, Event("Input", s.focused.pos, s.lock))

OnKey(s) == IF s.focused = None THEN s ELSE Queue(s, Event("Input", s.focused.pos, s.lock))

OnRelativeMotion(s) ==
  IF s.focused = None THEN s ELSE Queue(s, Event("Input", s.focused.pos, s.lock))

OnLocked(s, id) == IF CurrentPointerLock(s, id) THEN PointerLocked(s) ELSE s


(* Mutant of OnUnlocked: the focus is given up. *)
OnUnlockedUnfocused(s, id) ==
  IF CurrentPointerLock(s, id) THEN [Ungrab(s) EXCEPT !.focused = None] ELSE s

OnUnlocked(s, id) ==
  IF ~CurrentPointerLock(s, id) THEN s
  ELSE IF s.focused = None THEN Ungrab(s)
  ELSE LET pos == s.focused.pos
           t == [Ungrab(s) EXCEPT !.pending =
                   SelectSeq(@, LAMBDA e : e.pos # pos \/ e.what # "Begin")]
       IN Queue(t, Event("EdgeRetreated", pos, "Unlocked"))

(* update_output_info, when the output is complete *)
OnOutputDone(s, o) == UpdateWindows([s EXCEPT !.outs = {p \in @ : p.name # o.name} \cup {o}])

(* deregister_global *)
OnOutputRemoved(s, o) == [s EXCEPT !.outs = {p \in @ : p.name # o.name}]

Handle(s, msg) ==
  IF s.panic THEN s
  ELSE
  CASE msg.m = "Enter" -> OnEnter(s, msg.arg)
    [] msg.m = "Leave" -> OnLeave(s)
    [] msg.m = "Button" -> OnButton(s)
    [] msg.m = "AxisValue120" -> OnAxis120(s)
    [] msg.m = "Axis" -> OnAxis(s)
    [] msg.m = "Key" -> OnKey(s)
    [] msg.m = "RelativeMotion" -> OnRelativeMotion(s)
    [] msg.m = "Locked" -> OnLocked(s, msg.arg)
    [] msg.m = "Unlocked" -> OnUnlocked(s, msg.arg)
    [] msg.m = "OutputDone" -> OnOutputDone(s, msg.arg)
    [] msg.m = "OutputRemoved" -> OnOutputRemoved(s, msg.arg)

DispatchPending(s) == FoldLeft(Handle, s, inbox)

-----------------------------------------------------------------------------
Init ==
  /\ c = [active |-> {}, outs |-> {}, windows |-> {}, gen |-> 0, focused |-> None,
          keyboard |-> None, lock |-> None, lockState |-> "Released", lockOn |-> None,
          begin |-> None, pending |-> <<>>, discrete |-> FALSE, next |-> 1, panic |-> FALSE]
  /\ inbox = <<>> /\ at = None /\ locked = None /\ granted = {} /\ screen = {} /\ changes = 0
  /\ task = [active |-> None, permit |-> None, captures |-> {}]
  /\ resuming = None

(* The backend is in a new state: a lock or a window that is gone has no effect any more. *)
Becomes(s) ==
  /\ c' = s
  /\ at' = IF Alive(s, at) THEN at ELSE None
  /\ locked' = IF locked = s.lock /\ Alive(s, s.lockOn) THEN locked ELSE None
  /\ UNCHANGED <<granted, screen, changes>>

-----------------------------------------------------------------------------
(* The compositor and the user *)

Room(n) == ~c.panic /\ Len(inbox) + Len(c.pending) + n =< MaxMessages
Tells(msgs) == inbox' = inbox \o msgs
Enters == Cardinality({i \in DOMAIN inbox : inbox[i].m = "Enter"})

PointerEnters(w) ==
  /\ Room(1) /\ c.next + Enters =< MaxLocks
  /\ at = None /\ Alive(c, w) /\ \E o \in screen : o.name = w.output.name
  /\ at' = w
  /\ Tells(<<Message("Enter", w)>>)
  /\ UNCHANGED <<c, locked, granted, screen, changes, task, resuming>>

(* By hand while it is free, and otherwise when a window is opened in the wrong moment; *)
(* the lock is lost in either case.                                                     *)
PointerLeaves(unlocks) ==
  /\ Room(2) /\ at # None
  /\ at' = None /\ locked' = None
  /\ Tells((IF unlocks /\ locked # None THEN <<Message("Unlocked", locked)>> ELSE <<>>)
             \o <<Message("Leave", None)>>)
  /\ UNCHANGED <<c, granted, screen, changes, task, resuming>>

LockActivated ==
  /\ Room(1) /\ c.lock # None /\ locked = None /\ at # None /\ c.lockOn = at
  /\ locked' = c.lock /\ granted' = granted \cup {c.lock}
  /\ Tells(<<Message("Locked", c.lock)>>)
  /\ UNCHANGED <<c, at, screen, changes, task, resuming>>

LockDeactivated ==
  /\ Room(1) /\ locked # None
  /\ locked' = None
  /\ Tells(<<Message("Unlocked", locked)>>)
  /\ UNCHANGED <<c, at, granted, screen, changes, task, resuming>>

(* A button or the wheel, on the window under the pointer *)
ButtonPressed ==
  /\ Room(1) /\ at # None
  /\ Tells(<<Message("Button", None)>>)
  /\ UNCHANGED <<c, at, locked, granted, screen, changes, task, resuming>>

WheelTurned(discrete) ==
  /\ Room(2) /\ at # None
  /\ Tells((IF discrete THEN <<Message("AxisValue120", None)>> ELSE <<>>) \o <<Message("Axis", None)>>)
  /\ UNCHANGED <<c, at, locked, granted, screen, changes, task, resuming>>

KeyPressed ==
  /\ Room(1) /\ Alive(c, c.keyboard)
  /\ Tells(<<Message("Key", None)>>)
  /\ UNCHANGED <<c, at, locked, granted, screen, changes, task, resuming>>

PointerMoved ==
  /\ Room(1) /\ c.lock # None /\ at # None
  /\ Tells(<<Message("RelativeMotion", None)>>)
  /\ UNCHANGED <<c, at, locked, granted, screen, changes, task, resuming>>

(* An output appears, or is moved or resized. *)
OutputChanges(o) ==
  /\ Room(1) /\ changes < MaxChanges /\ o \notin screen
  /\ screen' = {p \in screen : p.name # o.name} \cup {o}
  /\ changes' = changes + 1
  /\ Tells(<<Message("OutputDone", o)>>)
  /\ UNCHANGED <<c, at, locked, granted, task, resuming>>

OutputGoes(o) ==
  /\ Removals /\ Room(1) /\ changes < MaxChanges /\ o \in screen
  /\ screen' = screen \ {o}
  /\ changes' = changes + 1
  /\ Tells(<<Message("OutputRemoved", o)>>)
  /\ UNCHANGED <<c, at, locked, granted, task, resuming>>

-----------------------------------------------------------------------------
(* The capture task *)

Ready == ~c.panic /\ resuming = None

(* poll_next without an event: everything that has arrived is dispatched. *)
Dispatch ==
  /\ Ready /\ c.pending = <<>> /\ inbox # <<>>
  /\ Becomes(DispatchPending(c))
  /\ inbox' = <<>>
  /\ UNCHANGED <<task, resuming>>

(* poll_next, and handle_capture_event of the event. An event of an edge that has no *)
(* capture any more is looked at in CaptureRegistry.                                 *)
ReadEvent ==
  /\ Ready /\ c.pending # <<>>
  /\ LET e == Head(c.pending)
         rest == [c EXCEPT !.pending = Tail(@)]
         stays == UNCHANGED task /\ Becomes(rest)
         release == Becomes(Ungrab(rest))
     IN IF e.pos \notin task.captures THEN stays
        ELSE IF e.what = "EdgeRetreated"
        THEN IF task.active = e.pos THEN task' = [task EXCEPT !.active = None] /\ release
             ELSE stays
        ELSE \/ task' = [task EXCEPT !.active = None] /\ release  \* the release bind
             \/ /\ e.what = "Begin" /\ task.active # e.pos /\ task.permit = e.pos
                /\ task' = [task EXCEPT !.active = e.pos, !.permit = None]
                /\ Becomes(rest)
             \/ /\ e.what = "Begin" /\ task.active # e.pos
                /\ task' = [task EXCEPT !.permit = IF @ = e.pos THEN None ELSE @]
                /\ release
             \/ e.what = "Input" /\ task.active # e.pos /\ UNCHANGED task /\ release
             \/ task.active = e.pos /\ stays
  /\ UNCHANGED <<inbox, resuming>>

(* A release of the service, which clears the permit first, or of an active capture for a *)
(* reason of the task's own                                                              *)
ReleaseCapture(cleared) ==
  /\ Ready /\ (cleared \/ task.active # None)
  /\ task' = [task EXCEPT !.active = None, !.permit = IF cleared THEN None ELSE @]
  /\ Becomes(Ungrab(c))
  /\ UNCHANGED <<inbox, resuming>>

(* The service has a grant: a permit is armed and the capture resumed. *)
Resume(pos) ==
  /\ Ready /\ pos \in task.captures /\ task.permit = None
  /\ task' = [task EXCEPT !.permit = pos]
  /\ IF c.focused # None /\ c.focused.pos = pos
     THEN /\ c.next + Enters =< MaxLocks
          /\ resuming' = pos
          /\ Becomes(BeginWhenPointerLocked(Grab(c), pos))
     ELSE UNCHANGED <<c, at, locked, granted, screen, changes, resuming>>
  /\ UNCHANGED inbox

(* The roundtrip is over: everything that has arrived is dispatched. Without a lock the *)
(* grab is undone.                                                                      *)
Resumed ==
  /\ ~c.panic /\ resuming # None
  /\ LET s == DispatchPending(c) IN
     Becomes(IF s.lockState = "Locked" THEN s ELSE Ungrab(s))
  /\ inbox' = <<>> /\ resuming' = None
  /\ UNCHANGED task

CreateCapture(pos) ==
  /\ Ready /\ pos \notin task.captures
  /\ task' = [task EXCEPT !.captures = @ \cup {pos}]
  /\ Becomes(AddClient(c, pos))
  /\ UNCHANGED <<inbox, resuming>>

DestroyCapture(pos) ==
  /\ Destroys /\ Ready /\ pos \in task.captures
  /\ task' = [task EXCEPT !.captures = @ \ {pos}, !.permit = IF @ = pos THEN None ELSE @]
  /\ Becomes(DeleteClient(c, pos))
  /\ UNCHANGED <<inbox, resuming>>

Next ==
  \/ \E w \in c.windows \cup {c.focused} : PointerEnters(w)
  \/ \E unlocks \in BOOLEAN : PointerLeaves(unlocks)
  \/ LockActivated \/ LockDeactivated
  \/ ButtonPressed \/ KeyPressed \/ PointerMoved
  \/ \E discrete \in BOOLEAN : WheelTurned(discrete)
  \/ \E o \in Outputs : OutputChanges(o)
  \/ \E o \in Outputs : OutputGoes(o)
  \/ Dispatch \/ ReadEvent
  \/ \E cleared \in BOOLEAN : ReleaseCapture(cleared)
  \/ \E pos \in Edges : Resume(pos)
  \/ Resumed
  \/ \E pos \in Edges : CreateCapture(pos)
  \/ \E pos \in Edges : DestroyCapture(pos)

Spec == Init /\ [][Next]_vars

-----------------------------------------------------------------------------
(* Properties *)

(* A capture is reported only under a lock that the compositor has confirmed, whatever *)
(* confirmations of earlier locks are on their way (begin_when_pointer_locked,         *)
(* current_pointer_lock).                                                              *)
BeginIsConfirmed ==
  \A i \in DOMAIN c.pending : c.pending[i].what = "Begin" => c.pending[i].by \in granted

(* Everything has been handled. *)
Settled == ~c.panic /\ resuming = None /\ inbox = <<>> /\ c.pending = <<>>

(* When everything has been handled, a capture that the task believes in is one: the *)
(* pointer is on the window of that edge and locked (resume_if_focused, ungrab).      *)
CaptureIsReal ==
  Settled /\ task.active # None =>
    /\ c.focused # None /\ c.focused.pos = task.active
    /\ c.lockState = "Locked" /\ locked = c.lock

TellsLoss ==
  c.lockState = "Locked" /\ c'.lockState # "Locked" /\ task'.active # None =>
    \E i \in DOMAIN c'.pending :
      c'.pending[i].what = "EdgeRetreated" /\ c'.pending[i].pos = task'.active

(* When the backend loses the lock of a capture that the task has, by Unlocked or by *)
(* wl_pointer::Leave, it tells the task that the capture is over.                    *)
LossTold == [][TellsLoss]_vars

FreesInput == task.active # None /\ task'.active = None => c'.lock = None /\ ~Alive(c', c'.keyboard)

(* When the task gives up a capture, neither the pointer nor the keyboard stays grabbed *)
(* (ungrab).                                                                            *)
ReleaseFrees == [][FreesInput]_vars

(* The handlers of buttons and axes find the window that they unwrap (app.focused). *)
FocusKnown == ~c.panic

(* Once the changes of the outputs are handled, there is a window along every outer edge   *)
(* of every client's side, and at no inner one (get_output_configuration, update_windows). *)
(* The compositor has closed the windows of an output that is gone.                        *)
WindowsAtOuterEdges ==
  (\A i \in DOMAIN inbox : inbox[i].m \notin {"OutputDone", "OutputRemoved"}) =>
    {<<w.pos, w.output>> : w \in {v \in c.windows : v.output \in screen}} =
      {<<pos, o>> \in task.captures \X screen :
         \A p \in screen \ {o} : Edge(p, Opposite(pos)) # Edge(o, pos)}

(* What the task reads as input of a capture was captured by it, and not before it *)
(* (queue_confirmed_begin).                                                        *)
NothingReplayed ==
  \A i, j \in DOMAIN c.pending :
    /\ i < j /\ c.pending[i].what = "Begin" /\ c.pending[j].what = "Input"
    /\ c.pending[i].pos = c.pending[j].pos
    /\ \A k \in i + 1..j : c.pending[k].what # "Begin"
    => c.pending[j].by = c.pending[i].by

(* The task tells the service of a retreat only when the pointer has left the edge. *)
RetreatIsLeave ==
  \A i \in DOMAIN c.pending :
    c.pending[i].what = "EdgeRetreated" /\ task.active # c.pending[i].pos => c.pending[i].by = "Leave"
=============================================================================
