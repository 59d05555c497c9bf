---------------------------- MODULE MCTransport ----------------------------
(***************************************************************************)
(* The clipboard connections of two hosts: an instance in which both        *)
(* transports restart, event queues fill and a connection falls silent; one *)
(* with room for every event, for what happens after the last fault; and    *)
(* the channel of one connection (ClipboardChannel).  A behaviour is one of *)
(* a single part; the variables of the others keep still.                   *)
(***************************************************************************)
EXTENDS ClipboardTransport

VARIABLES
  part,
  control, slot, shut, writer, stream, closed, reader, inbound, task, known, events, handoff,  \* channel
  accepted, received, dropped, lost

channelVars == <<control, slot, shut, writer, stream, closed, reader, inbound, task, known,
                 events, handoff, accepted, received, dropped, lost>>

Settling == INSTANCE ClipboardTransport WITH
  Slots <- {1, 2, 3}, EVENTS <- 8, Restarting <- {Server}, MaxFaults <- 2, MaxSilent <- 0, MaxMessages <- 0

H == INSTANCE ClipboardChannel WITH
  MaxHandoffs <- 1, CONTROL <- 3, EVENTS <- 1, STREAM <- 2, KnownBefore <- {TRUE, FALSE}

OnSettling == part = "settling"
OnChannel == part = "channel"

(* The connections stay as they are before they start; of a channel that is not in      *)
(* question all variables are None.                                                     *)
ChannelInit ==
  IF OnChannel THEN H!Init
  ELSE /\ control = None /\ slot = None /\ shut = None /\ writer = None /\ stream = None
       /\ closed = None /\ reader = None /\ inbound = None /\ task = None /\ known = None
       /\ events = None /\ handoff = None /\ accepted = None /\ received = None
       /\ dropped = None /\ lost = None

PartInit ==
  /\ part \in {"connections", "settling", "channel"}
  /\ IF OnSettling THEN Settling!Init ELSE Init
  /\ ChannelInit

PartNext ==
  \/ part = "connections" /\ Next /\ UNCHANGED <<part, channelVars>>
  \/ OnSettling /\ Settling!Next /\ UNCHANGED <<part, channelVars>>
  \/ OnChannel /\ H!Next /\ UNCHANGED <<part, vars>>

(* The fairness of the two components' own FairSpec *)
SettlingFair ==
  /\ \A p \in Peers :
       WF_vars(OnSettling /\ Settling!Dial(p)) /\ WF_vars(OnSettling /\ Settling!BackoffOver(p))
  /\ \A i \in {1, 2, 3}, x \in Hosts :
       /\ WF_vars(OnSettling /\ Settling!HelloDone(i, x))
       /\ WF_vars(OnSettling /\ Settling!HelloFails(i, x))
       /\ WF_vars(OnSettling /\ Settling!ManageConnection(i, x))
       /\ WF_vars(OnSettling /\ Settling!ManageEnded(i, x))
       /\ WF_vars(OnSettling /\ Settling!TaskEnds(i, x))
  /\ \A x \in Hosts : WF_vars(OnSettling /\ Settling!HandleTransportEvent(x))

ChannelFair ==
  /\ WF_channelVars(OnChannel /\ H!WriterNext) /\ WF_channelVars(OnChannel /\ H!WritePart)
  /\ WF_channelVars(OnChannel /\ H!WriterFails) /\ WF_channelVars(OnChannel /\ H!AuthorityNotices)
  /\ WF_channelVars(OnChannel /\ H!ReadPart) /\ WF_channelVars(OnChannel /\ H!ReaderEnds)
  /\ WF_channelVars(OnChannel /\ H!TaskControl) /\ WF_channelVars(OnChannel /\ H!TaskPayload)
  /\ WF_channelVars(OnChannel /\ H!TaskEnds) /\ WF_channelVars(OnChannel /\ H!Consume)

PartSpec == PartInit /\ [][PartNext]_<<part, vars, channelVars>> /\ SettlingFair /\ ChannelFair

SlotHeld == OnChannel /\ slot.active # 0 /\ "authority" \notin closed

=============================================================================
