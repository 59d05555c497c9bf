----------------------------- MODULE ProtoCodec -----------------------------
(* The datagrams of the input protocol (lan-mouse-proto/src/lib.rs) between *)
(* a sender and a reader that keeps one buffer for all of them              *)
(* (receive_loop in connect.rs, read_loop in listen.rs): a short datagram   *)
(* leaves the rest of an earlier one behind it.  The reader may be of an    *)
(* older version that knows fewer event types.                              *)
(*                                                                          *)
(* All sizes are those of the code; a byte has Base values (256), so that   *)
(* the numbers of an instance stay small.  A float is its bit pattern.      *)
EXTENDS Integers, Sequences, SequencesExt, FiniteSets

CONSTANTS
  Base,       \* values of a byte; must be more than the number of event types
  Versions,   \* versions of the reader: how many of EventTypes it knows
  Samples,    \* values of a field, by its kind
  MaxReads,   \* bound: datagrams read
  None

MAX_EVENT_SIZE == 1 + 4 + 2 * 8

(* The number of a type is its place. *)
EventTypes ==
  <<"PointerMotion", "PointerButton", "PointerAxis", "PointerAxisValue120", "KeyboardKey",
    "KeyboardModifiers", "Ping", "Pong", "Enter", "Leave", "Ack", "Hello", "Readiness",
    "ReleaseRequest", "ReleaseAck">>

Positions == <<"Left", "Right", "Top", "Bottom">>

Size == [u8 |-> 1, u32 |-> 4, u64 |-> 8, i32 |-> 4, f64 |-> 8, bool |-> 1, position |-> 1]

(* ProtoEvent: the fields of each event, in the order of its declaration *)
Fields ==
  [PointerMotion |-> <<"u32", "f64", "f64">>, PointerButton |-> <<"u32", "u32", "u32">>,
   PointerAxis |-> <<"u32", "u8", "f64">>, PointerAxisValue120 |-> <<"u8", "i32">>,
   KeyboardKey |-> <<"u32", "u32", "u8">>,
   KeyboardModifiers |-> <<"u32", "u32", "u32", "u32">>,
   Ping |-> <<>>, Pong |-> <<"bool">>, Enter |-> <<"position">>, Leave |-> <<"u32">>,
   Ack |-> <<"u32">>, Hello |-> [i \in 1..8 |-> "u8"],
   Readiness |-> <<"bool", "bool", "u64">>, ReleaseRequest |-> <<"u64">>,
   ReleaseAck |-> <<"u64">>]

(* Events whose fields are all the first or all the second of their samples, and events *)
(* with one field that is the second                                                    *)
Picks(n) ==
  {[i \in 1..n |-> IF i = j THEN 2 ELSE 1] : j \in 0..n} \cup {[i \in 1..n |-> 2]}
Events ==
  {[type |-> t, values |-> [i \in DOMAIN Fields[t] |-> Samples[Fields[t][i]][p[i]]]] :
     <<t, p>> \in UNION {{t} \X (IF Fields[t] = <<>> THEN {<<>>} ELSE Picks(Len(Fields[t]))) :
                           t \in DOMAIN Fields}}

-----------------------------------------------------------------------------
(* Numbers: to_be_bytes and from_be_bytes *)

ToBytes(n, size) == [i \in 1..size |-> (n \div Base^(size - i)) % Base]
FromBytes(bytes) == FoldLeft(LAMBDA n, b : n * Base + b, 0, bytes)

Index(s, v) == CHOOSE i \in DOMAIN s : s[i] = v

(* encode_impl!, and the conversions at its calls *)
EncodeField(kind, v) ==
  IF kind = "bool" THEN ToBytes(IF v THEN 1 ELSE 0, 1)
  ELSE IF kind = "position" THEN ToBytes(Index(Positions, v) - 1, 1)
  ELSE IF kind = "i32" THEN ToBytes(v % Base^4, 4)
  ELSE ToBytes(v, Size[kind])

(* decode_impl!, and the conversions at its calls *)
DecodeField(kind, bytes) ==
  LET n == FromBytes(bytes) IN
  IF kind = "bool" THEN n # 0
  ELSE IF kind = "position" THEN IF n < Len(Positions) THEN Positions[n + 1] ELSE None
  ELSE IF kind = "i32" THEN IF n >= Base^4 \div 2 THEN n - Base^4 ELSE n
  ELSE n

-----------------------------------------------------------------------------
(* From<ProtoEvent>: the fields of an input event *)
EncodeInput(type, v) ==
  CASE type = "PointerMotion" ->
         EncodeField("u32", v[1]) \o EncodeField("f64", v[2]) \o EncodeField("f64", v[3])
    [] type = "PointerButton" ->
         EncodeField("u32", v[1]) \o EncodeField("u32", v[2]) \o EncodeField("u32", v[3])
    [] type = "PointerAxis" ->
         EncodeField("u32", v[1]) \o EncodeField("u8", v[2]) \o EncodeField("f64", v[3])
    [] type = "PointerAxisValue120" -> EncodeField("u8", v[1]) \o EncodeField("i32", v[2])
    [] type = "KeyboardKey" ->
         EncodeField("u32", v[1]) \o EncodeField("u32", v[2]) \o EncodeField("u8", v[3])
    [] type = "KeyboardModifiers" -> FlattenSeq([i \in 1..4 |-> EncodeField("u32", v[i])])

(* From<ProtoEvent>: the fields of the other events *)
EncodeControl(type, v) ==
  CASE type = "Ping" -> <<>>
    [] type = "Pong" -> EncodeField("bool", v[1])
    [] type = "Enter" -> EncodeField("position", v[1])
    [] type \in {"Leave", "Ack"} -> EncodeField("u32", v[1])
    [] type = "Hello" -> FlattenSeq([i \in 1..8 |-> EncodeField("u8", v[i])])
    [] type = "Readiness" ->
         EncodeField("bool", v[1]) \o EncodeField("bool", v[2]) \o EncodeField("u64", v[3])
    [] type \in {"ReleaseRequest", "ReleaseAck"} -> EncodeField("u64", v[1])

InputTypes == {EventTypes[i] : i \in 1..6}

Encode(e) ==
  ToBytes(Index(EventTypes, e.type) - 1, 1)
    \o (IF e.type \in InputTypes THEN EncodeInput(e.type, e.values)
        ELSE EncodeControl(e.type, e.values))

(* TryFrom: what is read for an input event *)
InputLayout(type) ==
  CASE type = "PointerMotion" -> <<"u32", "f64", "f64">>
    [] type = "PointerButton" -> <<"u32", "u32", "u32">>
    [] type = "PointerAxis" -> <<"u32", "u8", "f64">>
    [] type = "PointerAxisValue120" -> <<"u8", "i32">>
    [] type = "KeyboardKey" -> <<"u32", "u32", "u8">>
    [] type = "KeyboardModifiers" -> <<"u32", "u32", "u32", "u32">>

(* TryFrom: what is read for the other events *)
ControlLayout(type) ==
  CASE type = "Ping" -> <<>>
    [] type = "Pong" -> <<"bool">>
    [] type = "Enter" -> <<"position">>
    [] type \in {"Leave", "Ack"} -> <<"u32">>
    [] type = "Hello" -> [i \in 1..8 |-> "u8"]
    [] type = "Readiness" -> <<"bool", "bool", "u64">>
    [] type \in {"ReleaseRequest", "ReleaseAck"} -> <<"u64">>

Error(what) == [error |-> what]

(* by a reader that knows so many types *)
Decode(buf, known) ==
  LET number == buf[1] + 1
      type == EventTypes[number]
      layout == IF type \in InputTypes THEN InputLayout(type) ELSE ControlLayout(type)
      at[i \in 1..Len(layout) + 1] == IF i = 1 THEN 2 ELSE at[i - 1] + Size[layout[i - 1]]
      values == [i \in DOMAIN layout |-> DecodeField(layout[i], SubSeq(buf, at[i], at[i + 1] - 1))]
  IN IF number > known THEN Error("InvalidEventId")
     ELSE IF \E i \in DOMAIN layout : layout[i] = "position" /\ values[i] = None
     THEN Error("InvalidPosition")
     ELSE [type |-> type, values |-> values]

-----------------------------------------------------------------------------
VARIABLES
  wire,  \* the datagram on its way, with the event it was made from, or None
  buf,   \* the reader's buffer
  read,  \* the last event read: what was sent, and what was understood
  reads, \* datagrams read
  version

vars == <<wire, buf, read, reads, version>>

Init ==
  /\ wire = None /\ buf = [i \in 1..MAX_EVENT_SIZE |-> 0] /\ read = None /\ reads = 0
  /\ version \in Versions

Send ==
  /\ wire = None /\ reads < MaxReads
  /\ \E e \in Events : wire' = [event |-> e, bytes |-> Encode(e)]
  /\ UNCHANGED <<buf, read, reads, version>>

Lose == wire # None /\ wire' = None /\ UNCHANGED <<buf, read, reads, version>>

Receive ==
  /\ wire # None
  /\ buf' = [i \in DOMAIN buf |-> IF i \in DOMAIN wire.bytes THEN wire.bytes[i] ELSE buf[i]]
  /\ read' = [sent |-> wire.event, got |-> Decode(buf', version)]
  /\ wire' = None /\ reads' = reads + 1 /\ UNCHANGED version

Next == Send \/ Lose \/ Receive

Spec == Init /\ [][Next]_vars

-----------------------------------------------------------------------------
(* Properties *)

(* Whatever an earlier datagram left in the buffer, the reader understands the event   *)
(* that was sent, or skips it because its type is new (receive_loop, read_loop).       *)
Understood ==
  read # None =>
    read.got = IF Index(EventTypes, read.sent.type) =< version THEN read.sent
               ELSE Error("InvalidEventId")
=============================================================================
