-------------------------- MODULE ClipboardChannel --------------------------
(***************************************************************************)
(* One clipboard connection, from the authority's runtime to the peer's:    *)
(* the transport handle with its control queue and payload slot, the        *)
(* writer, the stream, the reader with its validator, and the connection    *)
(* task that hands the messages on (lan-mouse-clipboard/src/transport.rs    *)
(* and start_connection in clipboard_transport.rs). A frame is its prefix,  *)
(* its header and, for a payload, its data: the parts between which the     *)
(* writer can be stopped.                                                   *)
(***************************************************************************)
EXTENDS Integers, Sequences, SequencesExt, FiniteSets

CONSTANTS MaxHandoffs,    \* handoffs of a behaviour (bound)
          CONTROL,        \* CONTROL_CLASS_COUNT
          EVENTS,         \* capacity of the transport's event queue
          STREAM,         \* parts that the socket buffers take
          KnownBefore     \* whether the peer may know the session already

VARIABLES control,        \* the handle's control queue
          slot,           \* the payload slot: queued and active
          shut,           \* the handle's cancellation token
          writer,         \* the frame being written, or that it has ended
          stream,         \* parts under way
          closed,         \* which ends of the stream are closed
          reader,         \* the frame being read, or that it has ended
          inbound,        \* the reader's queues for control and payload
          task,           \* whether the peer's connection task runs
          known,          \* the peer has installed the authority's session
          events,         \* the peer's event queue
          handoff,        \* the authority's handoffs: number and progress
          accepted, received, \* messages queued by one runtime, handed to the other
          dropped,        \* handoffs whose payload was cancelled in the queue
          lost            \* messages of the current session that the validator refused

vars == <<control, slot, shut, writer, stream, closed, reader, inbound, task, known,
          events, handoff, accepted, received, dropped, lost>>

Handoffs == 1..MaxHandoffs
Empty == <<>>
Control(type, h) == [type |-> type, handoff |-> h]
Payload(h) == [type |-> "SnapshotDeliver", handoff |-> h]
IsPayload(m) == m.type = "SnapshotDeliver"
Parts(m) == IF IsPayload(m) THEN 3 ELSE 2
Idle == [at |-> "idle", message |-> Empty, part |-> 0]
Ended == [at |-> "ended", message |-> Empty, part |-> 0]

Init ==
  /\ control = <<Control("AuthorityState", 0)>>  \* publish_authority_state
  /\ accepted = control
  /\ slot = [queued |-> 0, active |-> 0, cancelled |-> FALSE]
  /\ shut = FALSE
  /\ writer = Idle
  /\ stream = <<>>
  /\ closed = {}
  /\ reader = Idle
  /\ inbound = [control |-> <<>>, payload |-> <<>>]
  /\ task = TRUE
  /\ known \in KnownBefore
  /\ events = <<>>
  /\ handoff = [number |-> 0, at |-> "none", payload |-> FALSE]
  /\ received = <<>>
  /\ dropped = {}
  /\ lost = {}

-----------------------------------------------------------------------------
(* TransportHandle, called by the authority's runtime. *)

\* After the writer has ended, every call fails and changes nothing; the
\* calls below are made while it runs.
Writing == writer.at # "ended"

\* shutdown(): the queued payload is dropped, and everything is cancelled.
ShutSlot(s) == [s EXCEPT !.queued = 0, !.cancelled = TRUE]

\* try_send_control
Fits(queue) == Len(queue) < CONTROL
\* A queue that gives the place of its last message to a newer one when it is full.
QueuedReplacing(queue, m) == IF Fits(queue) THEN Append(queue, m) ELSE Append(Front(queue), m)
Queued(queue, m) == IF Fits(queue) THEN Append(queue, m) ELSE queue

\* RuntimeCore::try_send_control: a full or closed queue shuts the handle.
SendOrShut(m) ==
  /\ shut' = (shut \/ ~Fits(control))
  /\ slot' = IF Fits(control) THEN slot ELSE ShutSlot(slot)
  /\ handoff' = [number |-> m.handoff, payload |-> handoff.payload /\ m.type # "PrepareTarget",
                 at |-> CASE ~Fits(control) -> "none"
                          [] m.type = "PrepareTarget" -> "begun"
                          [] OTHER -> "activated"]

\* The coordinator begins a handoff: PrepareTarget. A handoff that cannot be
\* announced is skipped.
Begin ==
  /\ Writing
  /\ handoff.at = "none"
  /\ handoff.number < MaxHandoffs
  /\ LET m == Control("PrepareTarget", handoff.number + 1)
     IN /\ SendOrShut(m)
        /\ control' = Queued(control, m)
        /\ accepted' = IF Fits(control) THEN Append(accepted, m) ELSE accepted
  /\ UNCHANGED <<writer, stream, closed, reader, inbound, task, known, events, received,
                 dropped, lost>>

\* The input has moved: OwnershipActivated, and then the authority state to
\* every peer, which is dropped when the queue is full.
Activate ==
  /\ Writing
  /\ handoff.at = "begun"
  /\ LET m == Control("OwnershipActivated", handoff.number)
         state == Control("AuthorityState", 0)
         queue == Queued(control, m)
         sent == SubSeq(Queued(queue, state), Len(control) + 1, Len(Queued(queue, state)))
     IN /\ SendOrShut(m)
        /\ control' = control \o sent
        /\ accepted' = accepted \o sent
  /\ UNCHANGED <<writer, stream, closed, reader, inbound, task, known, events, received,
                 dropped, lost>>

\* try_send_payload: one payload, queued or being written, at a time.
TrySendPayload ==
  /\ Writing
  /\ handoff.at \in {"begun", "activated"}
  /\ ~handoff.payload
  /\ handoff' = [handoff EXCEPT !.payload = TRUE]
  /\ IF slot.queued = 0 /\ slot.active = 0
     THEN /\ slot' = [queued |-> handoff.number, active |-> 0, cancelled |-> shut]
          /\ accepted' = Append(accepted, Payload(handoff.number))
     ELSE UNCHANGED <<slot, accepted>>
  /\ UNCHANGED <<control, shut, writer, stream, closed, reader, inbound, task, known, events,
                 received, dropped, lost>>


\* cancel_handoff: the slot without the handoff's payload; what is being
\* written is cancelled.
CancelledSlot(s, h) ==
  [s EXCEPT !.queued = IF @ = h THEN 0 ELSE @,
            !.cancelled = @ \/ s.active = h]

\* CancelHandoff: the payload is taken back, and the peer is told. A control
\* message that does not fit is dropped here, and the handle stays open.
CancelHandoff ==
  /\ Writing
  /\ handoff.at # "none"
  /\ handoff' = [handoff EXCEPT !.at = "none"]
  /\ LET cancel == Control("CancelHandoff", handoff.number)
     IN /\ control' = Queued(control, cancel)
        /\ accepted' = IF Fits(control) THEN Append(accepted, cancel) ELSE accepted
  /\ slot' = CancelledSlot(slot, handoff.number)
  /\ dropped' = IF slot.queued = handoff.number THEN dropped \cup {handoff.number} ELSE dropped
  /\ UNCHANGED <<shut, writer, stream, closed, reader, inbound, task, known, events, received, lost>>

\* The handoff is over; the runtime needs the connection no more for it.
Settle ==
  /\ Writing
  /\ handoff.at = "activated"
  /\ handoff' = [handoff EXCEPT !.at = "none"]
  /\ UNCHANGED <<control, slot, shut, writer, stream, closed, reader, inbound, task, known,
                 events, accepted, received, dropped, lost>>

-----------------------------------------------------------------------------
(* run_writer *)

\* next(): the payload first, then the control queue.
WriterNext ==
  /\ writer.at = "idle"
  /\ "authority" \notin closed
  /\ \/ /\ slot.queued # 0
        /\ writer' = [at |-> "writing", message |-> Payload(slot.queued), part |-> 1]
        /\ slot' = [slot EXCEPT !.active = slot.queued, !.queued = 0]
        /\ UNCHANGED <<control, closed>>
     \/ /\ slot.queued = 0
        /\ IF shut
           THEN writer' = Ended /\ closed' = closed \cup {"authority"} /\ UNCHANGED control
           ELSE /\ control # <<>>
                /\ writer' = [at |-> "writing", message |-> Head(control), part |-> 1]
                /\ control' = Tail(control)
                /\ UNCHANGED closed
        /\ UNCHANGED slot
  /\ UNCHANGED <<shut, stream, reader, inbound, task, known, events, handoff, accepted,
                 received, dropped, lost>>

Cancelled == shut \/ (IsPayload(writer.message) /\ slot.cancelled)

\* A writer that leaves the slot taken when it fails.
KeepPayload(s, m) == s
\* complete_payload
CompletePayload(s, m) == IF IsPayload(m) THEN [s EXCEPT !.active = 0, !.cancelled = FALSE] ELSE s

\* write_frame is cancelled, meets an error or runs out of time: the writer
\* ends, and the connection task closes the stream.
WriterFails ==
  /\ writer.at = "writing"
  /\ Cancelled \/ "peer" \in closed \/ Len(stream) = STREAM
  /\ writer' = Ended
  /\ slot' = CompletePayload(slot, writer.message)
  /\ closed' = closed \cup {"authority"}
  /\ UNCHANGED <<control, shut, stream, reader, inbound, task, known, events, handoff,
                 accepted, received, dropped, lost>>

\* A writer that gives up a cancelled payload and goes on with the next message.
WritePartSkipping ==
  /\ writer.at = "writing"
  /\ "authority" \notin closed
  /\ IF Cancelled
     THEN /\ writer' = Idle
          /\ slot' = CompletePayload(slot, writer.message)
          /\ UNCHANGED stream
     ELSE /\ Len(stream) < STREAM
          /\ stream' = Append(stream, <<writer.message, writer.part>>)
          /\ IF writer.part = Parts(writer.message)
             THEN writer' = Idle /\ slot' = CompletePayload(slot, writer.message)
             ELSE writer' = [writer EXCEPT !.part = @ + 1] /\ UNCHANGED slot
  /\ UNCHANGED <<control, shut, closed, reader, inbound, task, known, events, handoff,
                 accepted, received, dropped, lost>>

\* write_all_before: the next part of the frame.
WritePart ==
  /\ writer.at = "writing"
  /\ "authority" \notin closed
  /\ ~Cancelled
  /\ Len(stream) < STREAM
  /\ stream' = Append(stream, <<writer.message, writer.part>>)
  /\ IF writer.part = Parts(writer.message)
     THEN writer' = Idle /\ slot' = CompletePayload(slot, writer.message)
     ELSE writer' = [writer EXCEPT !.part = @ + 1] /\ UNCHANGED slot
  /\ UNCHANGED <<control, shut, closed, reader, inbound, task, known, events, handoff,
                 accepted, received, dropped, lost>>

\* The authority's reader meets the end of the stream: its connection task
\* aborts the writer.
AuthorityNotices ==
  /\ "peer" \in closed
  /\ "authority" \notin closed
  /\ closed' = closed \cup {"authority"}
  /\ writer' = Ended
  /\ UNCHANGED <<control, slot, shut, stream, reader, inbound, task, known, events, handoff,
                 accepted, received, dropped, lost>>

-----------------------------------------------------------------------------
(* spawn_reader *)

\* validate_authority_metadata, for messages of the current authority: until
\* the session is installed, only an authority state passes.
Valid(m) == m.type = "AuthorityState" \/ known

Published(m) ==
  IF IsPayload(m) THEN [inbound EXCEPT !.payload = Append(@, m)]
  ELSE [inbound EXCEPT !.control = Append(@, m)]
HasRoom(m) == IF IsPayload(m) THEN inbound.payload = <<>> ELSE Len(inbound.control) < CONTROL

\* The next part; the validator runs after the header, and a whole frame is
\* put in its queue. A frame that is refused or does not fit ends the reader.
ReadPart ==
  /\ task
  /\ reader.at # "ended"
  /\ stream # <<>>
  /\ stream' = Tail(stream)
  /\ LET m == Head(stream)[1]
         part == Head(stream)[2]
         refused == part = 2 /\ ~Valid(m)
         whole == part = Parts(m)
     IN /\ reader' = IF refused \/ (whole /\ ~HasRoom(m)) THEN Ended
                     ELSE IF whole THEN Idle
                     ELSE [at |-> "reading", message |-> m, part |-> part]
        /\ inbound' = IF whole /\ ~refused /\ HasRoom(m) THEN Published(m) ELSE inbound
        /\ lost' = IF refused THEN lost \cup {m} ELSE lost
  /\ UNCHANGED <<control, slot, shut, writer, closed, task, known, events, handoff, accepted,
                 received, dropped>>

\* The end of the stream, or a frame that takes too long.
ReaderEnds ==
  /\ task
  /\ reader.at # "ended"
  /\ stream = <<>>
  /\ "authority" \in closed \/ reader.at = "reading"
  /\ reader' = Ended
  /\ UNCHANGED <<control, slot, shut, writer, stream, closed, inbound, task, known, events,
                 handoff, accepted, received, dropped, lost>>

-----------------------------------------------------------------------------
(* The connection task of start_connection, and the runtime behind it. *)

\* The next control message: an authority state installs its session first.
TaskControl ==
  /\ task
  /\ inbound.control # <<>>
  /\ LET m == Head(inbound.control)
     IN /\ known' = (known \/ m.type = "AuthorityState")
        /\ IF Len(events) < EVENTS
           THEN /\ events' = Append(events, m)
                /\ received' = Append(received, m)
                /\ inbound' = [inbound EXCEPT !.control = Tail(@)]
                /\ UNCHANGED <<task, closed>>
           ELSE /\ task' = FALSE
                /\ closed' = closed \cup {"peer"}
                /\ UNCHANGED <<events, received, inbound>>
  /\ UNCHANGED <<control, slot, shut, writer, stream, reader, handoff, accepted, dropped, lost>>

TaskPayload ==
  /\ task
  /\ inbound.payload # <<>>
  /\ LET m == Head(inbound.payload)
     IN IF Len(events) < EVENTS
        THEN /\ events' = Append(events, m)
             /\ received' = Append(received, m)
             /\ inbound' = [inbound EXCEPT !.payload = <<>>]
             /\ UNCHANGED <<task, closed>>
        ELSE /\ task' = FALSE
             /\ closed' = closed \cup {"peer"}
             /\ UNCHANGED <<events, received, inbound>>
  /\ UNCHANGED <<control, slot, shut, writer, stream, reader, known, handoff, accepted,
                 dropped, lost>>

\* The reader has ended: so does the connection, whatever is still queued.
TaskEnds ==
  /\ task
  /\ reader.at = "ended"
  /\ task' = FALSE
  /\ closed' = closed \cup {"peer"}
  /\ UNCHANGED <<control, slot, shut, writer, stream, reader, inbound, known, events, handoff,
                 accepted, received, dropped, lost>>

\* The peer's runtime takes an event.
Consume ==
  /\ events # <<>>
  /\ events' = Tail(events)
  /\ UNCHANGED <<control, slot, shut, writer, stream, closed, reader, inbound, task, known,
                 handoff, accepted, received, dropped, lost>>

Next ==
  \/ Begin \/ Activate \/ TrySendPayload \/ CancelHandoff \/ Settle
  \/ WriterNext \/ WritePart \/ WriterFails \/ AuthorityNotices
  \/ ReadPart \/ ReaderEnds \/ TaskControl \/ TaskPayload \/ TaskEnds \/ Consume

Spec == Init /\ [][Next]_vars

\* The tasks of both processes run, and a write that is blocked runs out of time.
FairSpec ==
  /\ Spec
  /\ WF_vars(WriterNext) /\ WF_vars(WritePart) /\ WF_vars(WriterFails) /\ WF_vars(AuthorityNotices)
  /\ WF_vars(ReadPart) /\ WF_vars(ReaderEnds) /\ WF_vars(TaskControl) /\ WF_vars(TaskPayload)
  /\ WF_vars(TaskEnds) /\ WF_vars(Consume)

-----------------------------------------------------------------------------
Controls(seq) == SelectSeq(seq, LAMBDA m: ~IsPayload(m))
PayloadsOf(seq) == SelectSeq(seq, IsPayload)

\* A reader always finds the part that it expects: a frame that was cut off by a
\* cancel or a timeout is the last thing on its stream (run_writer).
Aligned ==
  (reader.at # "ended" /\ stream # <<>>) =>
    Head(stream) = IF reader.at = "idle" THEN <<Head(stream)[1], 1>>
                   ELSE <<reader.message, reader.part + 1>>

\* Control messages arrive in the order in which they were queued and none is
\* skipped, whatever overtakes them as payload: PrepareTarget comes before its
\* OwnershipActivated, and that before its CancelHandoff (TransportReceiver::next).
ControlInOrder == IsPrefix(Controls(received), Controls(accepted))

\* A payload arrives at most once, in order, and never after cancel_handoff
\* has taken it out of the slot.
NoCancelledPayload ==
  /\ \A h \in Handoffs: Cardinality({i \in DOMAIN received: received[i] = Payload(h)}) <= 1
  /\ \A h \in dropped: Payload(h) \notin Range(received)

\* The slot is not held for ever: a payload that is being written is written, or its
\* connection ends (complete_payload).
SlotReleased == slot.active # 0 ~> (slot.active = 0 \/ "authority" \in closed)

\* A PrepareTarget of the current authority is not lost when it and the authority
\* state arrive in either order (validate_authority_metadata).
PrepareNotLost == \A m \in lost: m.type # "PrepareTarget"
=============================================================================
