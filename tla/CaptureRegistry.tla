-------------------------- MODULE CaptureRegistry --------------------------
(* Who has a capture barrier.  The service (lan-mouse/src/service.rs) keeps *)
(* the clients and the hosts that have entered here, and asks the capture   *)
(* task for a barrier on each of their edges over a queue.  The task        *)
(* (capture.rs) keeps a list of them, also while it has no backend, and     *)
(* the wrapper of the backend (input-capture/src/lib.rs) shares an edge     *)
(* among the handles that asked for it and hands every event of the edge to *)
(* each of them.  The three tables change at different times.  What a       *)
(* capture forwards, and the leases, are modelled in Hub and Handover; here *)
(* a switch is being prepared for a client (`preparing`), then the capture  *)
(* is armed for it.                                                         *)
EXTENDS Clients, Sequences, SequencesExt

CONSTANTS
  Peers,       \* addresses of hosts that may enter here
  MaxTriggers, \* bound: handles issued for hosts that entered
  MaxQueue,    \* bound: requests on their way to the capture task
  MaxEvents    \* bound: backend events, and candidates, not yet read

Triggers == {<<"enter", n>> : n \in 0..MaxTriggers - 1}
CaptureHandles == Handles \union Triggers

ASSUME RegistryAssumption ==
  /\ {MaxTriggers, MaxQueue, MaxEvents} \subseteq Nat
  /\ None \notin CaptureHandles \union Peers \union Positions

VARIABLES
  clients,   \* the client table of the service
  incoming,  \* peer -> its capture handle and edge, or None: incoming_conn_info
  next,      \* next_trigger_handle
  preparing, \* the client a switch is being prepared for, or None
  queue,     \* requests to the capture task
  armed,     \* the client that the capture gate has a permit for, or None
  captures,  \* the task's list of barriers
  session,   \* TRUE while the task has a backend
  ids,       \* the wrapper's maps, as a list of handle and edge
  edges,     \* the edges the backend watches
  raw,       \* events of the backend, by edge
  pending,   \* the wrapper's events for further handles of an edge
  candidates,\* events to the service: a client's edge was crossed
  panicked   \* the expect or assert that has failed, or None

vars == <<clients, incoming, next, preparing, queue, armed, captures, session,
          ids, edges, raw, pending, candidates, panicked>>

service == <<clients, incoming, next, preparing, candidates>>
task == <<captures, session, ids, edges, raw, pending, panicked>>

-----------------------------------------------------------------------------
(* The requests the service sends                                           *)

Create(h, pos, type) == <<"create", h, pos, type>>
Destroy(h) == <<"destroy", h>>
Resume(h) == <<"resume", h>>

(* a service operation works on the table and the requests together *)
Step(cs, reqs) == [cs |-> cs, reqs |-> reqs]

Deactivated(s, h) ==
  IF Deactivates(s.cs, h)
    THEN Step(DeactivateClient(s.cs, h), Append(s.reqs, Destroy(h)))
    ELSE s

DisplacesNobody(s, h) == s

(* deactivate_client of the client at this edge *)
Displaced(s, h) ==
  LET other == ClientAt(s.cs, s.cs[h].pos) \ {h}
  IN IF other = {} THEN s ELSE Deactivated(s, CHOOSE o \in other : TRUE)

(* activate_client: another client at the edge is deactivated first *)
Activated(s, h) ==
  IF s.cs[h] = None
    THEN s
    ELSE LET d == Displaced(s, h)
         IN IF Activates(d.cs, h)
              THEN Step(ActivateClient(d.cs, h),
                        Append(d.reqs, Create(h, d.cs[h].pos, "Default")))
              ELSE d

RemovedAlways(s, h) == Step(RemoveClient(s.cs, h), Append(s.reqs, Destroy(h)))

(* remove_client: the barrier goes only if the client was active *)
Removed(s, h) ==
  Step(RemoveClient(s.cs, h),
       IF s.cs[h] # None /\ s.cs[h].active THEN Append(s.reqs, Destroy(h)) ELSE s.reqs)

MovedInPlace(s, h, pos) == Step(SetPos(s.cs, h, pos), s.reqs)

(* update_pos: an active client is taken down and put up at its new edge *)
Moved(s, h, pos) ==
  LET m == Step(SetPos(s.cs, h, pos), s.reqs)
  IN IF PosChangeMatters(s.cs, h, pos) THEN Activated(Deactivated(m, h), h) ELSE m

Start == Step(clients, queue)

(* after a panic of the task the service's next request panics too *)
Running == panicked = None

Apply(s) ==
  /\ Len(queue) < MaxQueue
  /\ clients' = s.cs
  /\ queue' = s.reqs

-----------------------------------------------------------------------------
(* The service                                                              *)

Config(pos, active) ==
  NewClient(CHOOSE n \in Hosts : TRUE, {}, CHOOSE p \in Ports : TRUE, pos, active)

AddRequest(h) ==
  /\ Running
  /\ clients[h] = None
  /\ \E pos \in Positions : clients' = AddWithConfig(clients, h, Config(pos, FALSE))
  /\ UNCHANGED <<incoming, next, preparing, candidates, queue, armed, task>>

SetClientActive(h, active) ==
  /\ Running
  /\ Apply(IF active THEN Activated(Start, h) ELSE Deactivated(Start, h))
  /\ UNCHANGED <<incoming, next, preparing, candidates, armed, task>>

RemoveRequest(h) ==
  /\ Running
  /\ clients[h] # None
  /\ Apply(Removed(Start, h))
  /\ UNCHANGED <<incoming, next, preparing, candidates, armed, task>>

UpdatePos(h, pos) ==
  /\ Running
  /\ clients[h] # None
  /\ Apply(Moved(Start, h, pos))
  /\ UNCHANGED <<incoming, next, preparing, candidates, armed, task>>

(* handle_config_change: every client is removed and those of the file are  *)
(* added and activated, each displacing an earlier one at its edge; fail_gate *)
(* ends the switch and takes the permit back first                          *)
HandleConfigChange ==
  \E config \in [Handles -> Positions \union {None}] :
    LET order == SetToSeq(Handles)
        removed == FoldLeft(Removed, Start, order)
        Added(s, h) ==
          IF config[h] = None
            THEN s
            ELSE Activated(Step(AddWithConfig(s.cs, h, Config(config[h], FALSE)), s.reqs), h)
    IN /\ Running
       /\ Apply(FoldLeft(Added, removed, order))
       /\ preparing' = None
       /\ armed' = None
       /\ UNCHANGED <<incoming, next, candidates, task>>

(* handle_capture_candidate: one switch at a time *)
HandleCandidate ==
  /\ Running
  /\ candidates # <<>>
  /\ candidates' = Tail(candidates)
  /\ preparing' = IF preparing = None /\ clients[Head(candidates)] # None
                    THEN Head(candidates) ELSE preparing
  /\ UNCHANGED <<clients, incoming, next, queue, armed, task>>

(* handle_prepared: the grant has come.  It asks whether the client exists, *)
(* and not whether it is still active.                                      *)
HandlePrepared ==
  /\ Running
  /\ preparing # None
  /\ Len(queue) < MaxQueue
  /\ preparing' = None
  /\ IF clients[preparing] = None
       THEN UNCHANGED <<queue, armed>>
       ELSE /\ armed' = preparing
            /\ queue' = Append(queue, Resume(preparing))
  /\ UNCHANGED <<clients, incoming, next, candidates, task>>

PrepareFails ==
  /\ Running
  /\ preparing # None
  /\ preparing' = None
  /\ armed' = None
  /\ UNCHANGED <<clients, incoming, next, candidates, queue, task>>

(* add_incoming *)
WithIncoming(p, pos) ==
  /\ next < MaxTriggers
  /\ next' = next + 1
  /\ incoming' = [incoming EXCEPT ![p] = [h |-> <<"enter", next>>, pos |-> pos]]

(* Entered: add_incoming, or update_incoming when the host has moved to     *)
(* another edge, which is remove_incoming and add_incoming                  *)
HandleEntered(p, pos) ==
  /\ Running
  /\ Len(queue) < MaxQueue
  /\ IF incoming[p] # None /\ incoming[p].pos = pos
       THEN UNCHANGED <<incoming, next, queue>>
       ELSE /\ WithIncoming(p, pos)
            /\ queue' = (IF incoming[p] = None THEN queue
                         ELSE Append(queue, Destroy(incoming[p].h)))
                        \o <<Create(<<"enter", next>>, pos, "EnterOnly")>>
  /\ UNCHANGED <<clients, preparing, candidates, armed, task>>

(* Disconnected: remove_incoming *)
HandleDisconnected(p) ==
  /\ Running
  /\ incoming[p] # None
  /\ Len(queue) < MaxQueue
  /\ queue' = Append(queue, Destroy(incoming[p].h))
  /\ incoming' = [incoming EXCEPT ![p] = None]
  /\ UNCHANGED <<clients, next, preparing, candidates, armed, task>>

-----------------------------------------------------------------------------
(* The capture task                                                         *)

Without(list, h) == SelectSeq(list, LAMBDA x : x[1] # h)
Known(list, h) == \E i \in DOMAIN list : list[i][1] = h
At(list, pos) == SelectSeq(list, LAMBDA x : x[2] = pos)

(* InputCapture::create: the backend is asked for the first handle of an edge *)
WrapperCreate(h, pos) ==
  IF Known(ids, h)
    THEN panicked' = "create" /\ UNCHANGED <<ids, edges>>
    ELSE /\ ids' = Append(ids, <<h, pos>>)
         /\ edges' = edges \union {pos}
         /\ UNCHANGED panicked

WrapperDestroyEdge(h) ==
  LET pos == ids[CHOOSE i \in DOMAIN ids : ids[i][1] = h][2]
  IN ids' = Without(ids, h) /\ edges' = edges \ {pos} /\ UNCHANGED panicked

(* InputCapture::destroy: the backend is told for the last handle of an edge *)
WrapperDestroy(h) ==
  IF ~Known(ids, h)
    THEN panicked' = "destroy" /\ UNCHANGED <<ids, edges>>
    ELSE LET pos == ids[CHOOSE i \in DOMAIN ids : ids[i][1] = h][2]
             left == Without(ids, h)
         IN /\ ids' = left
            /\ edges' = IF At(left, pos) = <<>> THEN edges \ {pos} ELSE edges
            /\ UNCHANGED panicked

Disarm(h) == armed' = IF armed = h THEN None ELSE armed

(* a request, with a backend or (in the loop of `run`) without one *)
ServeRequest ==
  /\ Running
  /\ queue # <<>>
  /\ queue' = Tail(queue)
  /\ LET r == Head(queue)
     IN CASE r[1] = "create" ->
               /\ captures' = Append(captures, Tail(r))
               /\ IF session THEN WrapperCreate(r[2], r[3]) ELSE UNCHANGED <<ids, edges, panicked>>
               /\ UNCHANGED armed
          [] r[1] = "destroy" ->
               /\ captures' = Without(captures, r[2])
               /\ Disarm(r[2])
               /\ IF session THEN WrapperDestroy(r[2]) ELSE UNCHANGED <<ids, edges, panicked>>
          [] r[1] = "resume" ->
               /\ panicked' = IF session /\ ~Known(ids, r[2]) THEN "resume" ELSE None
               /\ UNCHANGED <<captures, ids, edges, armed>>
  /\ UNCHANGED <<service, session, raw, pending>>

(* do_capture: a backend is made, and create_captures asks it for every barrier *)
CreateBackend ==
  /\ Running
  /\ ~session
  /\ session' = TRUE
  /\ ids' = [i \in DOMAIN captures |-> <<captures[i][1], captures[i][2]>>]
  /\ edges' = {captures[i][2] : i \in DOMAIN captures}
  /\ UNCHANGED <<service, queue, armed, captures, raw, pending, panicked>>

(* the backend ends with an error; the wrapper and its events are dropped *)
BackendFails ==
  /\ Running
  /\ session
  /\ session' = FALSE
  /\ ids' = <<>> /\ edges' = {} /\ raw' = <<>> /\ pending' = <<>>
  /\ UNCHANGED <<service, queue, armed, captures, panicked>>

(* the pointer crosses an edge that the backend watches *)
Cross(pos) ==
  /\ Running
  /\ session /\ pos \in edges
  /\ Len(raw) < MaxEvents
  /\ raw' = Append(raw, pos)
  /\ UNCHANGED <<service, queue, armed, captures, session, ids, edges, pending, panicked>>

(* handle_capture_event for a Begin of handle h: only a known handle has a  *)
(* type; a client's crossing consumes its permit or makes a candidate       *)
HandleCaptureEvent(h) ==
  IF ~Known(captures, h)
    THEN panicked' = "event" /\ UNCHANGED <<armed, candidates>>
    ELSE /\ UNCHANGED panicked
         /\ IF h \in Triggers
              THEN UNCHANGED <<armed, candidates>>
              ELSE IF armed = h
                     THEN armed' = None /\ UNCHANGED candidates
                     ELSE candidates' = Append(candidates, h) /\ UNCHANGED armed

(* poll_next: what is pending first; an event of an edge that nobody has    *)
(* any more is dropped, one of a shared edge is queued for each handle      *)
PollNext ==
  /\ Running
  /\ session
  /\ Len(candidates) < MaxEvents
  /\ IF pending # <<>>
       THEN /\ HandleCaptureEvent(Head(pending))
            /\ pending' = Tail(pending)
            /\ UNCHANGED raw
       ELSE /\ raw # <<>>
            /\ raw' = Tail(raw)
            /\ LET here == At(ids, Head(raw))
               IN IF here = <<>>
                    THEN UNCHANGED <<pending, armed, candidates, panicked>>
                    ELSE /\ HandleCaptureEvent(here[1][1])
                         /\ pending' = [i \in 1..Len(here) - 1 |-> here[i + 1][1]]
  /\ UNCHANGED <<clients, incoming, next, preparing, queue, captures, session, ids, edges>>

-----------------------------------------------------------------------------
Init ==
  /\ clients = [h \in Handles |-> None]
  /\ incoming = [p \in Peers |-> None]
  /\ next = 0 /\ preparing = None /\ queue = <<>> /\ armed = None
  /\ captures = <<>> /\ session = FALSE /\ ids = <<>> /\ edges = {}
  /\ raw = <<>> /\ pending = <<>> /\ candidates = <<>> /\ panicked = None

Next ==
  \/ \E h \in Handles :
       \/ AddRequest(h) \/ RemoveRequest(h)
       \/ \E active \in BOOLEAN : SetClientActive(h, active)
       \/ \E pos \in Positions : UpdatePos(h, pos)
  \/ HandleConfigChange \/ HandleCandidate \/ HandlePrepared \/ PrepareFails
  \/ \E p \in Peers : HandleDisconnected(p) \/ \E pos \in Positions : HandleEntered(p, pos)
  \/ ServeRequest \/ CreateBackend \/ BackendFails \/ PollNext
  \/ \E pos \in Positions : Cross(pos)

Spec == Init /\ [][Next]_vars

-----------------------------------------------------------------------------
(* Properties                                                               *)

(* At most one active client has an edge, whatever is moved, activated or   *)
(* loaded from the configuration: a crossing there means one target.        *)
OneActivePerPosition ==
  \A pos \in Positions : Cardinality(ClientAt(clients, pos)) <= 1

(* The barriers the task will have once it has read its queue *)
After(list, reqs) ==
  FoldLeft(LAMBDA l, r : CASE r[1] = "create" -> Append(l, Tail(r))
                           [] r[1] = "destroy" -> Without(l, r[2])
                           [] OTHER -> l,
           list, reqs)

(* The capture task, with the requests still on their way, has a barrier    *)
(* for exactly the active clients and the hosts that have entered, each at  *)
(* its edge: an edit never leaves an edge without its barrier, or a barrier *)
(* that nobody owns.                                                        *)
RegistryAgrees ==
  ToSet(After(captures, queue)) =
    {<<h, clients[h].pos, "Default">> : h \in ActiveClients(clients)}
    \union {<<incoming[p].h, incoming[p].pos, "EnterOnly">> :
              p \in {q \in Peers : incoming[q] # None}}

(* While there is a backend it watches exactly the edges of the task's      *)
(* list, though edges are shared and the backend comes and goes.            *)
BackendAgrees ==
  session => edges = {captures[i][2] : i \in DOMAIN captures}

(* InputCapture::create never sees a handle twice, and destroy only one it  *)
(* has: the assert and the expect on them hold for every sequence of edits. *)
CreateDestroyPaired == panicked \notin {"create", "destroy"}

(* resume_if_focused expects a "position for this handle" *)
ResumeIsKnown == panicked # "resume"

(* get_type expects that an event's handle is one of the captures *)
EventIsKnown == panicked # "event"
=============================================================================
