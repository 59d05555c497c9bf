---------------------------- MODULE MCClipboard ----------------------------
(***************************************************************************)
(* The parts of the clipboard, each by itself: the coordinator with any     *)
(* caller (CoordinatorSpec), the runtimes, actors and connections of the    *)
(* authority and a peer (ClipboardRuntime), the channel between two of them *)
(* (ClipboardChannel) and its frames (FrameReader); with them the codec of  *)
(* the input events (ProtoCodec).  A behaviour is one of a single part; the *)
(* variables of the others keep still.  Instances of a part differ in their *)
(* bounds.                                                                  *)
(***************************************************************************)
EXTENDS CoordinatorSpec, Integers

CONSTANTS Instances,   \* the instances in question
          p1       \* the peer of the runtimes

VARIABLES
  part,
  auth, peer, act, init, req, done, slot, net, ses, native, inp, copied, faults, copies,  \* runtimes
  failed, dropped,
  control, hSlot, shut, writer, stream, closed, reader, inbound, task, known, events,     \* channel
  handoff, accepted, received, hDropped, lost,
  sent, wire, damaged, at, stage, frame, got,                                             \* frames
  kWire, buf, read, reads, version                                                        \* codec

runtimeVars == <<auth, peer, act, init, req, done, slot, net, ses, native, inp, copied, faults,
                 copies, failed, dropped>>
channelVars == <<control, hSlot, shut, writer, stream, closed, reader, inbound, task, known,
                 events, handoff, accepted, received, hDropped, lost>>
frameVars == <<sent, wire, damaged, at, stage, frame, got>>
codecVars == <<kWire, buf, read, reads, version>>
partVars == <<part, c, runtimeVars, channelVars, frameVars, codecVars>>

(* A snapshot of each session *)
MCSnapshots == {[session |-> 1, seq |-> 1], [session |-> 2, seq |-> 1]}

(* Two handoffs; one while an earlier request is outstanding; and one with faults *)
Two == INSTANCE ClipboardRuntime WITH
  Peers <- {p1}, MaxHandoffs <- 2, MaxCopies <- 0, MaxConns <- 1, MaxFaults <- 0, MaxBacklog <- 0, QUEUE <- 3
Backlog == INSTANCE ClipboardRuntime WITH
  Peers <- {p1}, MaxHandoffs <- 1, MaxCopies <- 1, MaxConns <- 1, MaxFaults <- 0, MaxBacklog <- 1, QUEUE <- 3
Faulty == INSTANCE ClipboardRuntime WITH
  Peers <- {p1}, MaxHandoffs <- 1, MaxCopies <- 0, MaxConns <- 2, MaxFaults <- 1, MaxBacklog <- 0, QUEUE <- 3

H == INSTANCE ClipboardChannel WITH
  MaxHandoffs <- 2, CONTROL <- 1, EVENTS <- 1, STREAM <- 1, KnownBefore <- {TRUE},
  slot <- hSlot, dropped <- hDropped

-----------------------------------------------------------------------------
(* Messages of every type, with short and with the longest host names *)

F0 == INSTANCE ClipboardFrames WITH MaxPayload <- 3, PlatformMax <- 1000

Id(n) == F0!Zeros(15) \o <<n>>
Epoch(n) == F0!Zeros(7) \o <<n>>
Token(host, n) == [session |-> Id(7), epoch |-> Epoch(n), host |-> host]
FrameHandoff == [session |-> Id(7), epoch |-> Epoch(3)]
Envelope(a, b) == [handoff |-> FrameHandoff, source |-> Token(a, 1), source_process |-> Id(11),
                   target |-> Token(b, 2), target_process |-> Id(22)]
Snapshot == [process |-> Id(11), sequence |-> Epoch(1)]

AllTypes(a, b) ==
  {[type |-> "ClipboardHello", host |-> a, process |-> Id(1), capabilities |-> Epoch(1), max |-> Epoch(9)],
   [type |-> "AuthorityState", process |-> Id(1), token |-> Token(a, 1), handoff |-> <<>>],
   [type |-> "AuthorityState", process |-> Id(1), token |-> Token(a, 1), handoff |-> <<Envelope(a, b)>>],
   [type |-> "CancelHandoff", handoff |-> FrameHandoff],
   [type |-> "ProtocolError", reason |-> F0!REASONS]}
  \cup {[type |-> t, handoff |-> Envelope(a, b)]: t \in {"PrepareTarget", "OwnershipActivated"}}
  \cup {[type |-> "PrepareResult", handoff |-> FrameHandoff, token |-> Token(b, 2), process |-> Id(22),
         generation |-> g, result |-> r]: g \in {<<>>, Epoch(0)}, r \in {0, 9}}
  \cup {[type |-> "ApplyResult", handoff |-> FrameHandoff, token |-> Token(b, 2), process |-> Id(22),
         snapshot |-> Snapshot, generation |-> Epoch(5), result |-> 0]}
  \cup {[type |-> t, handoff |-> Envelope(a, b), snapshot |-> Snapshot, kind |-> "text", data |-> d]:
          t \in F0!Payloads, d \in {<<>>, <<97, 98, 10>>}}
  \cup {[type |-> "SnapshotOffer", handoff |-> Envelope(a, b), snapshot |-> Snapshot,
         kind |-> "empty", data |-> <<>>]}

Longest == [i \in 1..F0!MAX_HOST_ID_BYTES |-> 104]

(* one of two types with the same header is enough to differ in a byte *)
MCMessages == {m \in AllTypes(<<97>>, <<98, 99>>) : m.type \notin {"OwnershipActivated", "SnapshotDeliver"}}
MCLarge == AllTypes(Longest, Longest)

F == INSTANCE FrameReader WITH
  MaxPayload <- 3, PlatformMax <- 1000, Messages <- MCMessages, LargeMessages <- MCLarge,
  Replacements <- {0, 1, 130}

(* Two samples of every kind of field, with the highest byte in use *)
MCSamples ==
  [u8 |-> <<1, 15>>, u32 |-> <<3, 16^3 * 9 + 16 * 4 + 2>>,
   u64 |-> <<5, 16^7 * 7 + 16^4 * 3 + 1>>, i32 |-> <<7, -2>>,
   f64 |-> <<16^7 * 6, 16^7 * 4 + 9>>, bool |-> <<FALSE, TRUE>>,
   position |-> <<"Left", "Bottom">>]

K == INSTANCE ProtoCodec WITH
  Base <- 16, Versions <- {13, 15}, MaxReads <- 2, Samples <- MCSamples, wire <- kWire

-----------------------------------------------------------------------------
(* The variables of a part that is not in question are all None; the coordinator stays at *)
(* its initial state.                                                                     *)
Runtimes == {"handoffs", "backlog", "faults"}
RuntimeInit ==
  IF part \in Runtimes THEN Two!Init
  ELSE /\ auth = None /\ peer = None /\ act = None /\ init = None /\ req = None /\ done = None
       /\ slot = None /\ net = None /\ ses = None /\ native = None /\ inp = None /\ copied = None
       /\ faults = None /\ copies = None /\ failed = None /\ dropped = None
ChannelInit ==
  IF part = "channel" THEN H!Init
  ELSE /\ control = None /\ hSlot = None /\ shut = None /\ writer = None /\ stream = None
       /\ closed = None /\ reader = None /\ inbound = None /\ task = None /\ known = None
       /\ events = None /\ handoff = None /\ accepted = None /\ received = None
       /\ hDropped = None /\ lost = None
FrameInit ==
  IF part = "frames" THEN F!Init
  ELSE /\ sent = None /\ wire = None /\ damaged = None /\ at = None /\ stage = None
       /\ frame = None /\ got = None
CodecInit ==
  IF part = "codec" THEN K!Init
  ELSE kWire = None /\ buf = None /\ read = None /\ reads = None /\ version = None

PartInit ==
  /\ part \in Instances
  /\ Init /\ c.sessions[Server] = 1
  /\ RuntimeInit /\ ChannelInit /\ FrameInit /\ CodecInit

CoordinatorNext ==
  part = "coordinator" /\ Next /\ UNCHANGED <<part, runtimeVars, channelVars, frameVars, codecVars>>
RuntimeNext ==
  /\ \/ part = "handoffs" /\ Two!Next
     \/ part = "backlog" /\ Backlog!Next
     \/ part = "faults" /\ Faulty!Next
  /\ UNCHANGED <<part, c, channelVars, frameVars, codecVars>>
ChannelNext ==
  part = "channel" /\ H!Next /\ UNCHANGED <<part, c, runtimeVars, frameVars, codecVars>>
FrameNext ==
  part = "frames" /\ F!Next /\ UNCHANGED <<part, c, runtimeVars, channelVars, codecVars>>
CodecNext ==
  part = "codec" /\ K!Next /\ UNCHANGED <<part, c, runtimeVars, channelVars, frameVars>>

PartNext == CoordinatorNext \/ RuntimeNext \/ ChannelNext \/ FrameNext \/ CodecNext

PartSpec == PartInit /\ [][PartNext]_partVars

-----------------------------------------------------------------------------
(* The properties of the other parts *)


(* A native clipboard is written only where the ownership has moved, and never over what    *)
(* the user has copied since the preparation, whatever order preparation, activation and    *)
(* payload come in (stage_snapshot, apply_stage; NoLostCopy, WriteAfterActivation).         *)
SafeWrites == [][(part \in Runtimes) => (Two!KeepsCopies /\ Two!WritesAsOwner)]_runtimeVars

=============================================================================
