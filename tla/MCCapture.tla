----------------------------- MODULE MCCapture -----------------------------
(***************************************************************************)
(* A host captures its input with one backend, which create_backend of      *)
(* input-capture/src/lib.rs chooses: the event tap of macOS, the hooks of   *)
(* Windows, layer-shell surfaces or libei.  A behaviour is one of that      *)
(* backend; the variables of the others keep still.  Two instances of a     *)
(* backend differ in what may happen around it.                             *)
(***************************************************************************)
EXTENDS MacosCapture

CONSTANTS
  Backends,             \* the instances in question
  Top, Bottom,          \* the edges that only libei tells apart
  LibeiEdges, LibeiLayouts, LibeiCircumstances

VARIABLES
  backend,
  clients, active, rearm, entry, prev, queue, msgs, updates, resuming,  \* Windows
  wWaiting, wTask, focus, wOwed, wSession,
  c, inbox, at, locked, granted, screen, changes, lTask, lResuming,     \* layer-shell
  loop, eClients, sess, failed, eNotify, release, token, eChan,         \* libei
  portal, eis, signals, eTask

macosVars == vars
windowsVars == <<clients, active, rearm, entry, prev, queue, msgs, updates, resuming, wWaiting,
                 wTask, focus, wOwed, wSession>>
layerVars == <<c, inbox, at, locked, granted, screen, changes, lTask, lResuming>>
libeiVars == <<loop, eClients, sess, failed, eNotify, release, token, eChan, portal, eis,
               signals, eTask>>
captureVars == <<backend, macosVars, windowsVars, layerVars, libeiVars>>

-----------------------------------------------------------------------------
(* macOS.  One display; in the second instance another to its left may come and go. *)

MCOneTopology == {{<<0, 4>>}}
MCTopologies == {{}, {<<0, 4>>}, {<<-2, 2>>, <<0, 4>>}}
MCXs == {-2, 0, 1, 2, 3}
MCDeltas == {-1, 1}

Screens == INSTANCE MacosCapture WITH
  Edges <- {Right}, Topologies <- MCTopologies, Capacity <- 2, MaxNotify <- 2, Flood <- FALSE,
  CursorResults <- {TRUE}, LocalTyping <- FALSE

(* Windows.  One display of three columns, and a mouse that may be pushed past its left    *)
(* edge; in the second instance past both, and no client is removed.                       *)

W == INSTANCE WindowsCapture WITH
  Displays <- <<<<0, 3>>>>, Xs <- {-1, 0, 2}, EDGE_REARM_DISTANCE <- 2, CRITICAL_EVENT_CAPACITY <- 2,
  MaxUpdates <- 1, Destroys <- TRUE,
  waiting <- wWaiting, task <- wTask, owed <- wOwed, session <- wSession
Kept == INSTANCE WindowsCapture WITH
  Displays <- <<<<0, 3>>>>, Xs <- {-1, 0, 2, 3}, EDGE_REARM_DISTANCE <- 2, CRITICAL_EVENT_CAPACITY <- 2,
  MaxUpdates <- 1, Destroys <- FALSE,
  waiting <- wWaiting, task <- wTask, owed <- wOwed, session <- wSession

(* Layer-shell.  One output and one edge; then one output, a second to its right, and the *)
(* first again after it was resized.                                                      *)

L == INSTANCE LayerShell WITH
  Edges <- {Left}, Outputs <- {[name |-> 1, x |-> 0, width |-> 2]}, Destroys <- FALSE,
  Removals <- FALSE, MaxMessages <- 4, MaxLocks <- 3, MaxChanges <- 1,
  task <- lTask, resuming <- lResuming
Outs == INSTANCE LayerShell WITH
  Edges <- {Left, Right},
  Outputs <- {[name |-> 1, x |-> 0, width |-> 2], [name |-> 2, x |-> 2, width |-> 2],
              [name |-> 1, x |-> 0, width |-> 1]},
  Destroys <- FALSE, Removals <- FALSE, MaxMessages <- 2, MaxLocks <- 1, MaxChanges <- 3,
  task <- lTask, resuming <- lResuming

(* libei.  One region, where releases come unasked and devices are removed; and two     *)
(* regions, where the user is fast, the EI connection ends and calls of the portal fail. *)

MCRegion == [x |-> 0, y |-> 0, w |-> 4, h |-> 4]
MCOneLayout == {<<MCRegion>>}
MCLayouts == {<<MCRegion>>, <<MCRegion, [x |-> 4, y |-> 0, w |-> 4, h |-> 4]>>}

E == INSTANCE LibeiCapture WITH
  Edges <- LibeiEdges, Layouts <- LibeiLayouts, Circumstances <- LibeiCircumstances,
  Capacity <- 1, MaxUnread <- 1,
  clients <- eClients, notify <- eNotify, chan <- eChan, task <- eTask
Regions == INSTANCE LibeiCapture WITH
  Edges <- {Left}, Layouts <- MCLayouts,
  Circumstances <- {"flood", "closed", "fault"},
  Capacity <- 1, MaxUnread <- 1,
  clients <- eClients, notify <- eNotify, chan <- eChan, task <- eTask

-----------------------------------------------------------------------------
(* The backend that runs; macOS stays as it is before it starts, and the variables of the *)
(* other backends are all None.                                                           *)

WindowsInit ==
  IF backend \in {"windows", "kept"} THEN W!Init
  ELSE /\ clients = None /\ active = None /\ rearm = None /\ entry = None /\ prev = None
       /\ queue = None /\ msgs = None /\ updates = None /\ resuming = None /\ wWaiting = None
       /\ wTask = None /\ focus = None /\ wOwed = None /\ wSession = None
LayerInit ==
  IF backend \in {"layer", "outputs"} THEN L!Init
  ELSE /\ c = None /\ inbox = None /\ at = None /\ locked = None /\ granted = None
       /\ screen = None /\ changes = None /\ lTask = None /\ lResuming = None
LibeiInit ==
  IF backend = "regions" THEN Regions!Init
  ELSE IF backend = "libei" THEN E!Init
  ELSE /\ loop = None /\ eClients = None /\ sess = None /\ failed = None /\ eNotify = None
       /\ release = None /\ token = None /\ eChan = None /\ portal = None /\ eis = None
       /\ signals = None /\ eTask = None

CaptureInit ==
  /\ backend \in Backends
  /\ IF backend = "screens" THEN Screens!Init ELSE Init
  /\ WindowsInit /\ LayerInit /\ LibeiInit

Macos == UNCHANGED <<backend, windowsVars, layerVars, libeiVars>>
Windows == UNCHANGED <<backend, macosVars, layerVars, libeiVars>>
Layer == UNCHANGED <<backend, macosVars, windowsVars, libeiVars>>
Libei == UNCHANGED <<backend, macosVars, windowsVars, layerVars>>

CaptureNext ==
  \/ backend = "macos" /\ Next /\ Macos
  \/ backend = "screens" /\ Screens!Next /\ Macos
  \/ backend = "windows" /\ W!Next /\ Windows
  \/ backend = "kept" /\ Kept!Next /\ Windows
  \/ backend = "layer" /\ L!Next /\ Layer
  \/ backend = "outputs" /\ Outs!Next /\ Layer
  \/ backend = "libei" /\ E!Next /\ Libei
  \/ backend = "regions" /\ Regions!Next /\ Libei

CaptureSpec == CaptureInit /\ [][CaptureNext]_captureVars

(* Every backend's fairness, while it is the one that runs: see its module. *)
CaptureFair ==
  /\ CaptureSpec
  /\ WF_macosVars(backend = "macos" /\ BlockingSend)
  /\ SF_macosVars(backend = "macos" /\ Handle)
  /\ WF_windowsVars(backend = "kept" /\ Kept!HandleRelease)
  /\ WF_windowsVars(backend = "kept" /\ Kept!HandleResume)
  /\ WF_windowsVars(backend = "kept" /\ Kept!HandleClientUpdate)
  /\ WF_libeiVars(backend = "libei" /\ E!StartTurn)
  /\ WF_libeiVars(backend = "libei" /\ E!UpdateEnds)
  /\ WF_libeiVars(backend = "libei" /\ E!ZonesChanged)
  /\ WF_libeiVars(backend = "libei" /\ E!EndTurn)
  /\ WF_libeiVars(backend = "libei" /\ E!Connect)
  /\ WF_libeiVars(backend = "libei" /\ E!UpdateBarriers)
  /\ WF_libeiVars(backend = "libei" /\ E!Enable)
  /\ WF_libeiVars(backend = "libei" /\ E!Listen)
  /\ WF_libeiVars(backend = "libei" /\ E!Activate)
  /\ WF_libeiVars(backend = "libei" /\ E!BeginSent)
  /\ WF_libeiVars(backend = "libei" /\ E!DevicesChanged)
  /\ WF_libeiVars(backend = "libei" /\ E!ReleaseCapture)
  /\ WF_libeiVars(backend = "libei" /\ E!CancelUpdate)
  /\ WF_libeiVars(backend = "libei" /\ E!ReadEi)
  /\ WF_libeiVars(backend = "libei" /\ E!NotifySent)
  /\ WF_libeiVars(backend = "libei" /\ E!ReleaseReturns)
  /\ WF_libeiVars(backend = "libei" /\ E!TerminateReturns)
  /\ SF_libeiVars(backend = "libei" /\ E!ClientsChanged)
  /\ SF_libeiVars(backend = "libei" /\ E!AlreadyLocal)
  /\ SF_libeiVars(backend = "libei" /\ E!TakeRelease)
  /\ SF_libeiVars(backend = "libei" /\ E!CancelSession)

-----------------------------------------------------------------------------
(* The properties of the backends, which their modules define; one that needs an instance *)
(* of its own says which.                                                                  *)





Awaited ==
  \/ backend = "macos" /\ waiting = "release"
  \/ backend = "kept" /\ wWaiting = "release"
  \/ backend = "libei" /\ eTask.call # None
SessionLost == backend = "libei" /\ E!Broken

=============================================================================
