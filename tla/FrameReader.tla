---------------------------- MODULE FrameReader ----------------------------
(***************************************************************************)
(* One connection's reader (read_next_frame_validated and spawn_reader's    *)
(* loop) on a stream of two frames. The stream is what encode_message       *)
(* wrote, or ends early, or has one byte that another implementation wrote  *)
(* differently. The reader takes the prefix, the header and the payload in  *)
(* three steps, and can be cancelled or run out of time between them.       *)
(***************************************************************************)
EXTENDS ClipboardFrames

CONSTANTS Messages,       \* first messages whose every byte may differ
          LargeMessages,  \* first messages that are sent as they are
          Replacements    \* the values a differing byte may have

VARIABLES sent,           \* the messages that were encoded
          wire,           \* the bytes of the stream, up to its end
          damaged,        \* a byte differs
          at,             \* how many bytes the reader has taken
          stage,          \* "prefix", "header", "payload" or "stopped"
          frame,          \* the frame in progress: its type, lengths and fields
          got             \* the messages published, with their bytes

vars == <<sent, wire, damaged, at, stage, frame, got>>

\* The second message, a protocol error.
Farewell == [type |-> "ProtocolError", reason |-> 17]
NoFrame == [type |-> "", header |-> 0, payload |-> 0, fields |-> <<>>]

Stream(m) == EncodeMessage(m).bytes \o EncodeMessage(Farewell).bytes

Init ==
  /\ \E m \in Messages \cup LargeMessages:
       /\ sent = <<m, Farewell>>
       /\ \/ wire = Stream(m) /\ damaged = FALSE
          \/ /\ m \in Messages
             /\ damaged = FALSE
             /\ \E cut \in 0..Len(Stream(m)) - 1: wire = SubSeq(Stream(m), 1, cut)
          \/ /\ m \in Messages
             /\ damaged = TRUE
             /\ \E i \in DOMAIN Stream(m), b \in Replacements:
                  /\ Stream(m)[i] # b
                  /\ wire = [Stream(m) EXCEPT ![i] = b]
  /\ at = 0
  /\ stage = "prefix"
  /\ frame = NoFrame
  /\ got = <<>>

Available(n) == at + n <= Len(wire)
Upcoming(n) == SubSeq(wire, at + 1, at + n)
Stopped == stage' = "stopped" /\ UNCHANGED <<sent, wire, damaged, at, frame, got>>

\* The prefix is checked before the header is read.
ReadPrefix ==
  /\ stage = "prefix"
  /\ Available(PREFIX_BYTES)
  /\ LET prefix == Upcoming(PREFIX_BYTES)
     IN IF PrefixError(prefix) # "" THEN Stopped
        ELSE /\ frame' = [type |-> MessageTypes[Num(SubSeq(prefix, 7, 8))],
                          header |-> Num(SubSeq(prefix, 13, 16)),
                          payload |-> Num(SubSeq(prefix, 17, 24)), fields |-> <<>>]
             /\ at' = at + PREFIX_BYTES
             /\ stage' = "header"
             /\ UNCHANGED <<sent, wire, damaged, got>>

\* The header is parsed, and the validator may refuse its identities, before
\* there is room for a payload.
ReadHeader ==
  /\ stage = "header"
  /\ Available(frame.header)
  /\ LET parsed == ParseHeader(frame.type, Upcoming(frame.header))
     IN IF parsed.err # "" \/ (frame.type \notin Payloads /\ frame.payload # 0) THEN Stopped
        ELSE \/ Stopped
             \/ /\ frame' = [frame EXCEPT !.fields = parsed.out]
                /\ at' = at + frame.header
                /\ stage' = "payload"
                /\ UNCHANGED <<sent, wire, damaged, got>>

\* A frame is published when its payload has been read and checked.
ReadPayload ==
  /\ stage = "payload"
  /\ Available(frame.payload)
  /\ LET payload == Upcoming(frame.payload)
         size == PREFIX_BYTES + frame.header + frame.payload
     IN IF FinishError(frame.type, frame.fields, payload) # "" THEN Stopped
        ELSE /\ got' = Append(got, [message |-> Message(frame.type, frame.fields, payload),
                                    bytes |-> SubSeq(wire, at + frame.payload - size + 1,
                                                     at + frame.payload)])
             /\ at' = at + frame.payload
             /\ stage' = "prefix"
             /\ frame' = NoFrame
             /\ UNCHANGED <<sent, wire, damaged>>

\* The stream ends inside a frame, or between two frames.
EndOfStream ==
  /\ \/ stage = "prefix" /\ ~Available(PREFIX_BYTES)
     \/ stage = "header" /\ ~Available(frame.header)
     \/ stage = "payload" /\ ~Available(frame.payload)
  /\ Stopped

\* The connection is cancelled, or a frame that has begun takes too long.
Interrupted ==
  /\ stage # "stopped"
  /\ Stopped

Next == ReadPrefix \/ ReadHeader \/ ReadPayload \/ EndOfStream \/ Interrupted

Spec == Init /\ [][Next]_vars

-----------------------------------------------------------------------------
\* A reader of what encode_message wrote publishes the messages that were sent, in
\* order and each once, wherever the stream ends (read_frame_after_prefix).
DeliveredAsSent ==
  ~damaged => IsPrefix([i \in DOMAIN got |-> got[i].message], sent)

\* Decoding is strict: whatever bytes a message is read from, encoding it
\* gives the same bytes back, so no two encodings mean the same and the
\* next frame starts where the writer put it (parse_header, finish_message).
Canonical == \A i \in DOMAIN got: EncodeMessage(got[i].message) = Ok(got[i].bytes)

\* The text of a published payload is the text that was sent, also when a byte
\* of the frame differs: the digest covers it (finish_message).
PayloadIntact ==
  \A i \in DOMAIN got: got[i].message.type \in Payloads => got[i].message.data = sent[1].data

\* No message is too large for its own header limit, even with the longest host
\* names: encode_message refuses only a payload or a host name (MAX_HEADER_BYTES).
HeaderFits == EncodeMessage(sent[1]).err # "InvalidHeaderLength"
=============================================================================
