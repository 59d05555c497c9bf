-------------------------- MODULE ClipboardFrames --------------------------
(***************************************************************************)
(* The clipboard's frames (lan-mouse-clipboard/src/frame.rs): the encoder,  *)
(* the decoder, and the reader that takes a frame from a stream of bytes.   *)
(* Integers of more than two bytes are kept as their bytes, most            *)
(* significant first, which is what to_be_bytes makes of them; only lengths *)
(* are read as numbers, and Num saturates at Huge.                          *)
(***************************************************************************)
EXTENDS Integers, Sequences, SequencesExt

CONSTANTS MaxPayload,     \* the negotiated limit, max_payload_bytes
          PlatformMax     \* usize::MAX

MAGIC == <<76, 77, 67, 66>>
PROTOCOL_VERSION == <<0, 1>>
KNOWN_FLAGS == <<0, 0, 0, 0>>
PREFIX_BYTES == 24
MAX_HOST_ID_BYTES == 255
MAX_TOKEN_BYTES == 16 + 8 + 1 + MAX_HOST_ID_BYTES
ENVELOPE_FIXED_BYTES == 16 + 8 + MAX_TOKEN_BYTES * 2 + 16 * 2
MAX_HEADER_BYTES == 16 + MAX_TOKEN_BYTES + 1 + ENVELOPE_FIXED_BYTES

\* MessageType, in the order of its discriminants.
MessageTypes == <<"ClipboardHello", "AuthorityState", "PrepareTarget", "PrepareResult",
                  "OwnershipActivated", "SnapshotOffer", "SnapshotDeliver", "ApplyResult",
                  "CancelHandoff", "ProtocolError">>
Payloads == {"SnapshotOffer", "SnapshotDeliver"}
REASONS == 22            \* ClipboardReason, numbered as by reason_to_u16

Zeros(n) == [i \in 1..n |-> 0]
Huge == 2^20
\* The number that the bytes stand for, at most Huge.
Num(bytes) ==
  FoldLeft(LAMBDA n, b: IF n * 256 + b < Huge THEN n * 256 + b ELSE Huge, 0, bytes)
\* The bytes of a number below 2^16, in w bytes.
Bytes(n, w) == Zeros(w - 2) \o <<n \div 256, n % 256>>

\* SHA-256: different short payloads have different digests.
Digest(bytes) == <<Len(bytes)>> \o bytes \o Zeros(31 - Len(bytes))
\* str::from_utf8: the payloads here have only single-byte characters.
Utf8(bytes) == \A i \in DOMAIN bytes: bytes[i] < 128

-----------------------------------------------------------------------------
(* HeaderWriter: the bytes of a field. A host name that does not fit is an  *)
(* error, which encode_message returns before anything is written.          *)

HostFits(host) == Len(host) \in 1..MAX_HOST_ID_BYTES
WriteHost(host) == <<Len(host)>> \o host
WriteToken(t) == t.session \o t.epoch \o WriteHost(t.host)
WriteHandoff(h) == h.session \o h.epoch
WriteSnapshot(s) == s.process \o s.sequence
WriteEnvelope(e) == WriteHandoff(e.handoff) \o WriteToken(e.source) \o e.source_process
                    \o WriteToken(e.target) \o e.target_process
\* None is the empty sequence, Some(g) the eight bytes of g.
WriteGeneration(g) == IF g = <<>> THEN <<0>> \o Zeros(8) ELSE <<1>> \o g
WriteReason(r) == Bytes(r, 2)
\* 0 is Completed, a reason is Skipped(reason).
WriteResult(r) == IF r = 0 THEN <<0>> \o Bytes(0, 2) ELSE <<1>> \o WriteReason(r)

HostsOf(m) ==
  CASE m.type = "ClipboardHello" -> {m.host}
    [] m.type = "AuthorityState" ->
         {m.token.host} \cup UNION {{e.source.host, e.target.host}: e \in Range(m.handoff)}
    [] m.type \in Payloads \cup {"PrepareTarget", "OwnershipActivated"} ->
         {m.handoff.source.host, m.handoff.target.host}
    [] m.type \in {"PrepareResult", "ApplyResult"} -> {m.token.host}
    [] OTHER -> {}

Header(m) ==
  CASE m.type = "ClipboardHello" -> WriteHost(m.host) \o m.process \o m.capabilities \o m.max
    [] m.type = "AuthorityState" ->
         m.process \o WriteToken(m.token) \o <<Len(m.handoff)>>
         \o (IF m.handoff = <<>> THEN <<>> ELSE WriteEnvelope(m.handoff[1]))
    [] m.type \in {"PrepareTarget", "OwnershipActivated"} -> WriteEnvelope(m.handoff)
    [] m.type = "PrepareResult" ->
         WriteHandoff(m.handoff) \o WriteToken(m.token) \o m.process
         \o WriteGeneration(m.generation) \o WriteResult(m.result)
    [] m.type \in Payloads ->
         WriteEnvelope(m.handoff) \o WriteSnapshot(m.snapshot)
         \o <<IF m.kind = "text" THEN 1 ELSE 2>> \o Digest(m.data)
    [] m.type = "ApplyResult" ->
         WriteHandoff(m.handoff) \o WriteToken(m.token) \o m.process
         \o WriteSnapshot(m.snapshot) \o WriteGeneration(m.generation) \o WriteResult(m.result)
    [] m.type = "CancelHandoff" -> WriteHandoff(m.handoff)
    [] m.type = "ProtocolError" -> WriteReason(m.reason)

Ok(bytes) == [err |-> "", bytes |-> bytes]
Refused(err) == [err |-> err, bytes |-> <<>>]

EncodedPrefix(type, header, payload) ==
  MAGIC \o PROTOCOL_VERSION \o Bytes(CHOOSE i \in DOMAIN MessageTypes: MessageTypes[i] = type, 2)
  \o KNOWN_FLAGS \o Bytes(Len(header), 4) \o Bytes(Len(payload), 8)

EncodeMessage(m) ==
  LET header == Header(m)
      payload == IF m.type \in Payloads THEN m.data ELSE <<>>
  IN IF \E host \in HostsOf(m): ~HostFits(host) THEN Refused("InvalidHostId")
     ELSE IF m.type \in Payloads /\ m.kind = "unavailable" THEN Refused("UnavailableData")
     ELSE IF m.type \in Payloads /\ ~Utf8(m.data) THEN Refused("InvalidUtf8")
     ELSE IF Len(payload) > MaxPayload THEN Refused("PayloadTooLarge")
     ELSE IF Len(header) > MAX_HEADER_BYTES THEN Refused("InvalidHeaderLength")
     ELSE Ok(EncodedPrefix(m.type, header, payload) \o header \o payload)

-----------------------------------------------------------------------------
(* HeaderReader: its state is the bytes, the offset, the values read so far *)
(* and the first error; after an error nothing more is read. What a header  *)
(* holds is the list of the reads, each of which adds a value, and of the   *)
(* conversions, each of which replaces the values read last.                *)

Start(bytes) == [bytes |-> bytes, at |-> 0, out |-> <<>>, err |-> "", ended |-> FALSE]
Fail(r, err) == [r EXCEPT !.err = err]

\* take(): the next count bytes.
Take(r, count) ==
  IF r.at + count > Len(r.bytes) THEN Fail(r, "InvalidHeaderLength")
  ELSE [r EXCEPT !.at = r.at + count,
                 !.out = Append(r.out, SubSeq(r.bytes, r.at + 1, r.at + count))]

\* The value read last, and the one that was read n values before it.
Top(r) == Last(r.out)
Back(r, n) == r.out[Len(r.out) - n]
\* The n values read last become the single value v.
Gather(r, n, v) == [r EXCEPT !.out = Append(SubSeq(r.out, 1, Len(r.out) - n), v)]

Width == [u8 |-> 1, u16 |-> 2, u64 |-> 8, u128 |-> 16, digest |-> 32]

\* The bytes of a host's name, of the length that was read before them.
TakeName(r) == IF Top(r) = <<0>> THEN Fail(r, "InvalidHostId") ELSE Take(r, Top(r)[1])
CheckedHost(r) == IF Utf8(Top(r)) THEN Gather(r, 2, Top(r)) ELSE Fail(r, "InvalidHostId")

CheckedGeneration(r) ==
  CASE Back(r, 1) = <<0>> /\ Top(r) = Zeros(8) -> Gather(r, 2, <<>>)
    [] Back(r, 1) = <<1>> -> Gather(r, 2, Top(r))
    [] OTHER -> Fail(r, "InvalidField")

CheckedReason(r) ==
  IF Num(Top(r)) \in 1..REASONS THEN Gather(r, 1, Num(Top(r))) ELSE Fail(r, "InvalidField")

CheckedResult(r) ==
  CASE Back(r, 1) = <<0>> /\ Num(Top(r)) = 0 -> Gather(r, 2, 0)
    [] Back(r, 1) = <<1>> /\ Num(Top(r)) \in 1..REASONS -> Gather(r, 2, Num(Top(r)))
    [] OTHER -> Fail(r, "InvalidField")

CheckedKind(r) ==
  CASE Top(r) = <<1>> -> Gather(r, 1, "text")
    [] Top(r) = <<2>> -> Gather(r, 1, "empty")
    [] OTHER -> Fail(r, "InvalidField")

\* Whether an authority state has an envelope; without one its header ends here.
CheckedPresence(r) ==
  CASE Top(r) = <<0>> -> [Gather(r, 1, <<>>) EXCEPT !.ended = TRUE]
    [] Top(r) = <<1>> -> r
    [] OTHER -> Fail(r, "InvalidField")

Convert(r, field) ==
  CASE field = "name" -> TakeName(r)
    [] field = "host" -> CheckedHost(r)
    [] field = "generation" -> CheckedGeneration(r)
    [] field = "reason" -> CheckedReason(r)
    [] field = "result" -> CheckedResult(r)
    [] field = "kind" -> CheckedKind(r)
    [] field = "presence" -> CheckedPresence(r)
    [] field = "token" ->
         Gather(r, 3, [session |-> Back(r, 2), epoch |-> Back(r, 1), host |-> Top(r)])
    [] field = "handoff" -> Gather(r, 2, [session |-> Back(r, 1), epoch |-> Top(r)])
    [] field = "snapshot" -> Gather(r, 2, [process |-> Back(r, 1), sequence |-> Top(r)])
    [] field = "envelope" ->
         Gather(r, 5, [handoff |-> Back(r, 4), source |-> Back(r, 3), source_process |-> Back(r, 2),
                       target |-> Back(r, 1), target_process |-> Top(r)])
    [] field = "present" -> Gather(r, 2, <<Top(r)>>)

ReadField(r, field) ==
  IF r.err # "" \/ r.ended THEN r
  ELSE IF field \in DOMAIN Width THEN Take(r, Width[field])
  ELSE Convert(r, field)

HostFields == <<"u8", "name", "host">>
TokenFields == <<"u128", "u64">> \o HostFields \o <<"token">>
HandoffFields == <<"u128", "u64", "handoff">>
SnapshotFields == <<"u128", "u64", "snapshot">>
EnvelopeFields == HandoffFields \o TokenFields \o <<"u128">> \o TokenFields \o <<"u128", "envelope">>
ResultFields == <<"u8", "u64", "generation", "u8", "u16", "result">>

\* The fields of a header, in the order in which parse_header reads them.
HeaderFields(type) ==
  CASE type = "ClipboardHello" -> HostFields \o <<"u128", "u64", "u64">>
    [] type = "AuthorityState" ->
         <<"u128">> \o TokenFields \o <<"u8", "presence">> \o EnvelopeFields \o <<"present">>
    [] type \in {"PrepareTarget", "OwnershipActivated"} -> EnvelopeFields
    [] type = "PrepareResult" -> HandoffFields \o TokenFields \o <<"u128">> \o ResultFields
    [] type \in Payloads -> EnvelopeFields \o SnapshotFields \o <<"u8", "kind", "digest">>
    [] type = "ApplyResult" ->
         HandoffFields \o TokenFields \o <<"u128">> \o SnapshotFields \o ResultFields
    [] type = "CancelHandoff" -> HandoffFields
    [] type = "ProtocolError" -> <<"u16", "reason">>

\* parse_header: the whole header must have been read.
ParseHeader(type, bytes) ==
  LET r == FoldLeft(ReadField, Start(bytes), HeaderFields(type))
  IN IF r.err = "" /\ r.at # Len(bytes) THEN Fail(r, "InvalidHeaderLength") ELSE r

\* checked_payload_length
CheckedPayloadLength(declared) ==
  CASE declared > MaxPayload -> "PayloadTooLarge"
    [] declared > PlatformMax -> "PlatformLengthOverflow"
    [] OTHER -> ""

\* decode_prefix: the first check that fails.
PrefixError(prefix) ==
  CASE SubSeq(prefix, 1, 4) # MAGIC -> "InvalidMagic"
    [] SubSeq(prefix, 5, 6) # PROTOCOL_VERSION -> "UnsupportedVersion"
    [] Num(SubSeq(prefix, 7, 8)) \notin DOMAIN MessageTypes -> "UnknownMessageType"
    [] SubSeq(prefix, 9, 12) # KNOWN_FLAGS -> "UnknownFlags"
    [] Num(SubSeq(prefix, 13, 16)) > MAX_HEADER_BYTES -> "InvalidHeaderLength"
    [] OTHER -> CheckedPayloadLength(Num(SubSeq(prefix, 17, 24)))

Message(type, v, payload) ==
  CASE type = "ClipboardHello" ->
         [type |-> type, host |-> v[1], process |-> v[2], capabilities |-> v[3], max |-> v[4]]
    [] type = "AuthorityState" ->
         [type |-> type, process |-> v[1], token |-> v[2], handoff |-> v[3]]
    [] type \in {"PrepareTarget", "OwnershipActivated", "CancelHandoff"} ->
         [type |-> type, handoff |-> v[1]]
    [] type = "PrepareResult" ->
         [type |-> type, handoff |-> v[1], token |-> v[2], process |-> v[3],
          generation |-> v[4], result |-> v[5]]
    [] type \in Payloads ->
         [type |-> type, handoff |-> v[1], snapshot |-> v[2], kind |-> v[3], data |-> payload]
    [] type = "ApplyResult" ->
         [type |-> type, handoff |-> v[1], token |-> v[2], process |-> v[3],
          snapshot |-> v[4], generation |-> v[5], result |-> v[6]]
    [] type = "ProtocolError" -> [type |-> type, reason |-> v[1]]

\* finish_message: why a payload is not published.
FinishError(type, v, payload) ==
  CASE type \notin Payloads /\ payload # <<>> -> "UnexpectedPayload"
    [] type \in Payloads /\ v[4] # Digest(payload) -> "IntegrityFailed"
    [] type \in Payloads /\ v[3] = "text" /\ ~Utf8(payload) -> "InvalidUtf8"
    [] type \in Payloads /\ v[3] = "empty" /\ payload # <<>> -> "UnexpectedPayload"
    [] OTHER -> ""
=============================================================================
