------------------------------ MODULE Framing ------------------------------
(***************************************************************************)
(* The packets of a server on their way through MqttCodec::decode          *)
(* (backend/codec.rs), in pieces of any size.                              *)
(*                                                                         *)
(* The FramedRead of tokio-io is external: it reads what the network has   *)
(* into the buffer, as much as fits, and then decodes until the decoder    *)
(* asks for more.  When the buffer is full it takes back the room of what  *)
(* was decoded (reserve).  decode does not wait for that.  It takes all    *)
(* there is out of the buffer, which leaves the buffer with the room       *)
(* behind, and puts the rest back by put, which panics without room.       *)
(*                                                                         *)
(* The other direction, MqttCodec::encode, shares nothing with it: a       *)
(* behaviour has a script of the server or requests of the client, or only *)
(* a length, for those that no packet of an instance has.                  *)
(***************************************************************************)
EXTENDS Parsers

CONSTANTS
  Scripts,    \* what servers send: sequences of [packet, wide]
  Capacity,   \* of the buffer: 8192
  Requests,   \* what clients send: sequences of packets
  Lengths     \* of packets that are not looked at otherwise

Byte == 0..255

\* What a server may send: the types of packet_headers, and whatever is none.
ServerTypes ==
  {PacketType.ConnAck, PacketType.Publish, PacketType.SubAck,
   PacketType.UnsubAck, PacketType.PingResp} \cup AckTypes
Foreign(p) == p.ty \notin ServerTypes

ServerPackets ==
  [ty : 0..15, flags : 0..15, headers : Seq(Seq(Byte)),
   payload : {NoPayload} \cup [is : {"Application"}, bytes : Seq(Byte)]
               \cup [is : {"SubAck"}, codes : Seq(SubAckReturnCodes)]]

\* The two bits of the QoS are not set.
IsQoS0(p) == p.ty = PacketType.Publish /\ (p.flags \div 2) % 4 = 0

\* The sizes of the headers, by the type.
Sizes(p) ==
  CASE p.ty = PacketType.ConnAck -> <<1, 1>>
    [] p.ty = PacketType.Publish /\ IsQoS0(p) -> <<Len(p.headers[1])>>
    [] p.ty = PacketType.Publish /\ ~IsQoS0(p) -> <<Len(p.headers[1]), 2>>
    [] p.ty = PacketType.PingResp -> <<>>
    [] OTHER -> <<2>>

PayloadKind(ty) ==
  CASE ty = PacketType.Publish -> "Application"
    [] ty = PacketType.SubAck -> "SubAck"
    [] ty = PacketType.Connect -> "Connect"
    [] ty = PacketType.Subscribe -> "Subscribe"
    [] ty = PacketType.Unsubscribe -> "Unsubscribe"
    [] OTHER -> "None"

\* The bytes behind the length.
Body(p) ==
  LET name == IF p.ty = PacketType.Publish THEN U16(Len(p.headers[1])) ELSE <<>>
      payload == CASE p.payload.is = "Application" -> p.payload.bytes
                   [] p.payload.is = "SubAck" -> p.payload.codes
                   [] OTHER -> <<>>
  IN name \o FlattenSeq(p.headers) \o payload

\* A packet of a server that keeps to MQTT, but that it may make up a type.
Lawful(p) ==
  /\ p.ty = PacketType.Publish => p.headers # <<>> /\ Len(p.headers[1]) < 65536
  /\ Len(Body(p)) <= MaxLength
  /\ ~Foreign(p) =>
       /\ Len(p.headers) = Len(Sizes(p))
       /\ \A i \in DOMAIN p.headers : Len(p.headers[i]) = Sizes(p)[i]
       /\ p.payload.is = PayloadKind(p.ty)
       /\ p.payload.is = "SubAck" => p.payload.codes # <<>>

\* A server says first whether it accepts, and if it has the session.
Greeting(p) == p.ty = PacketType.ConnAck /\ p.headers[1][1] \in {0, 1}

\* A wide packet has its length in one byte more than it needs.
ServerScript(ss) ==
  /\ ss \in Seq([packet : ServerPackets, wide : BOOLEAN])
  /\ \A i \in DOMAIN ss :
       /\ Lawful(ss[i].packet)
       /\ ss[i].wide => Len(Body(ss[i].packet)) < 128
  /\ ss # <<>> => Greeting(ss[1].packet)

Will == [topic : Seq(Byte), message : Seq(Byte), qos : 0..2, retain : BOOLEAN]

\* What a client may send: what the functions of Packets make.
ClientPackets ==
  [ty : PacketTypes, flags : 0..15, headers : Seq(Seq(Byte)),
   payload : {NoPayload} \cup [is : {"Application"}, bytes : Seq(Byte)]
               \cup [is : {"Connect"}, id : Seq(Byte), will : Seq(Will), creds : Seq(Seq(Byte))]
               \cup [is : {"Subscribe"}, topics : Seq([topic : Seq(Byte), qos : 0..2])]
               \cup [is : {"Unsubscribe"}, topics : Seq(Seq(Byte))]]

ClientScript(rs) ==
  /\ rs \in Seq(ClientPackets)
  /\ \A i \in DOMAIN rs :
       /\ rs[i].payload.is = PayloadKind(rs[i].ty)
       /\ rs[i].ty \in AckTypes => Lawful(rs[i])

\* The buffer for a packet is far below the longest one there can be.
ASSUME FramingAssumption ==
  /\ Capacity \in Nat \ {0}
  /\ PayloadRoom \in Nat
  /\ PacketRoom \in Nat /\ PacketRoom <= MaxLength
  /\ \A n \in Lengths : n \in Nat /\ n <= MaxLength
  /\ \A ss \in Scripts : ServerScript(ss)
  /\ \A rs \in Requests : ClientScript(rs)

VARIABLES
  halves,     \* how bits! treats half a byte
  script,     \* what this server sends
  wire,       \* the bytes under way
  buf,        \* the bytes in the buffer
  window,     \* the room of the buffer, with the bytes that are in it
  readable,   \* the decoder has not asked for more yet
  out,        \* the packets that were decoded
  state,      \* "Open", "Failed" by an error, or "Crashed"
  requests,   \* what this client sends
  written,    \* what encode made of the first of them
  length      \* the length of a packet

reading == <<halves, script, wire, buf, window, readable, out, state>>
writing == <<requests, written, length>>
vars == <<reading, writing>>

OnWire(s) ==
  LET n == Len(Body(s.packet))
  IN <<16 * s.packet.ty + s.packet.flags>>
       \o (IF s.wide THEN <<128 + n, 0>> ELSE encode_vle(n)) \o Body(s.packet)

Stream(ss) == FlattenSeq([i \in DOMAIN ss |-> OnWire(ss[i])])

\* script and requests never change.
TypeOK ==
  /\ halves \in Halves
  /\ wire \in Seq(0..255)
  /\ buf \in Seq(0..255)
  /\ window \in 0..Capacity
  /\ state = "Open" => Len(buf) <= window
  /\ readable \in BOOLEAN
  /\ \A i \in DOMAIN out : out[i].ty \in PacketTypes
  /\ state \in {"Open", "Failed", "Crashed"}
  /\ Len(written) <= Len(requests)
  /\ length \in Lengths \cup {0}

Init ==
  /\ halves \in Halves
  /\ \/ script \in Scripts /\ requests = <<>> /\ length = 0
     \/ script = <<>> /\ requests \in Requests /\ length = 0
     \/ script = <<>> /\ requests = <<>> /\ length \in Lengths
  /\ written = <<>>
  /\ wire = Stream(script)
  /\ buf = <<>>
  /\ window = Capacity
  /\ readable = FALSE
  /\ out = <<>>
  /\ state = "Open"

-----------------------------------------------------------------------------
\* The stream is polled.
Read ==
  /\ state = "Open" /\ ~readable
  /\ LET room == IF Len(buf) = window THEN Capacity ELSE window IN
     \E n \in 1..Min({Len(wire), room - Len(buf)}) :
       /\ buf' = buf \o SubSeq(wire, 1, n)
       /\ wire' = From(wire, n + 1)
       /\ window' = room
  /\ readable' = TRUE
  /\ UNCHANGED <<halves, script, out, state, writing>>

\* Mutant: a put that does not look whether there is room.
PutBackUnchecked(s) ==
  /\ window' = window - Len(buf)
  /\ buf' = s
  /\ UNCHANGED state

\* src.put after src.take.
PutBack(s) ==
  /\ window' = window - Len(buf)
  /\ IF Len(s) <= window - Len(buf)
       THEN buf' = s /\ UNCHANGED state
       ELSE buf' = <<>> /\ state' = "Crashed"

\* Mutant: one packet is decoded for each read.
DecodePacketOnce(r) ==
  /\ r.is = "Done"
  /\ out' = Append(out, r.value)
  /\ PutBack(r.rest)
  /\ readable' = FALSE

\* Mutant: everything is put back.
DecodePacketAll(r) ==
  /\ r.is = "Done"
  /\ out' = Append(out, r.value)
  /\ PutBack(buf)
  /\ UNCHANGED readable

\* A packet is there.
DecodePacket(r) ==
  /\ r.is = "Done"
  /\ out' = Append(out, r.value)
  /\ PutBack(r.rest)
  /\ UNCHANGED readable

\* More bytes are needed.  An underflow is taken for that in a release build:
\* the length that comes of it never arrives.
DecodeNothing(r) ==
  /\ r.is \in {"Incomplete", "Underflow"}
  /\ PutBack(buf)
  /\ readable' = FALSE
  /\ UNCHANGED out

\* In a debug build it panics.
DecodeUnderflow(r) ==
  /\ r.is = "Underflow"
  /\ state' = "Crashed"
  /\ buf' = <<>>
  /\ window' = window - Len(buf)
  /\ UNCHANGED <<readable, out>>

\* The buffer is lost, and the stream ends with the error.
DecodeError(r) ==
  /\ r.is = "Error"
  /\ state' = "Failed"
  /\ buf' = <<>>
  /\ window' = window - Len(buf)
  /\ UNCHANGED <<readable, out>>

\* MqttCodec::decode, on what from_slice makes of the buffer.
Decode ==
  /\ state = "Open" /\ readable
  /\ \E r \in {packet(halves, buf)} :
     \/ DecodePacket(r)
     \/ DecodeNothing(r)
     \/ DecodeUnderflow(r)
     \/ DecodeError(r)
  /\ UNCHANGED <<halves, script, wire, writing>>

\* MqttCodec::encode.
Encode ==
  /\ Len(written) < Len(requests)
  /\ written' = Append(written, encode(requests[Len(written) + 1]))
  /\ UNCHANGED <<reading, requests, length>>

Next == Read \/ Decode \/ Encode

\* The network brings what was sent, and FramedRead decodes what it has read.
Spec == Init /\ [][Next]_vars /\ WF_vars(Read \/ Decode)

-----------------------------------------------------------------------------
\* A message of QoS 0 without two bytes to be taken for an identifier.
Short(p) == IsQoS0(p) /\ Len(p.payload.bytes) < 2

\* A packet is told as it was sent, but for QoS 0: the first two bytes of the
\* message are read as the identifier it does not have (parsers.rs:147).
Told(p) ==
  IF IsQoS0(p)
    THEN Packet(p.ty, p.flags, Append(p.headers, SubSeq(p.payload.bytes, 1, 2)),
                Application(From(p.payload.bytes, 3)))
    ELSE p

Left == SubSeq(script, Len(out) + 1, Len(script))
ShortIsNext == Left # <<>> /\ Short(Left[1].packet)
Delivered == Len(Stream(script)) - Len(wire)

\* However the bytes are cut into pieces, the packets come out one by one as
\* they were sent, and no byte is lost, used twice or taken from the next
\* packet (codec.rs:28-38).
InStep ==
  halves = "kept" =>
    /\ Len(out) <= Len(script)
    /\ \A i \in DOMAIN out : out[i] = Told(script[i].packet)
    /\ state = "Open" => buf \o wire = Stream(Left)

\* An error is about a packet that is none (mod.rs:93).
ErrorsAreForeign ==
  halves = "kept" /\ state = "Failed" => Left # <<>> /\ Foreign(Left[1].packet)

\* A decoder that panics has seen more bytes than the buffer has room for when
\* they come one by one, or a short message of QoS 0 (codec.rs:31, 34).
CrashNeedsMany ==
  halves = "kept" /\ state = "Crashed" /\ ~ShortIsNext
    => Delivered * (Delivered + 3) > 2 * Capacity

\* A script with little enough to fit in any pieces, and nothing foreign.
Roomy ==
  /\ \A i \in DOMAIN script : ~Short(script[i].packet) /\ ~Foreign(script[i].packet)
  /\ Len(Stream(script)) * (Len(Stream(script)) + 3) <= 2 * Capacity

\* All that such a server sends is decoded, whatever the pieces.
AllIsDecoded == halves = "kept" /\ Roomy ~> Len(out) = Len(script)

-----------------------------------------------------------------------------
\* What MQTT asks for, by the headers and the parts of the payload.
Layout(p) ==
  LET payload ==
        CASE p.payload.is = "Connect" ->
               FlattenSeq([i \in 1..Len(p.payload.creds) + 1 |->
                             String((<<p.payload.id>> \o p.payload.creds)[i])])
          [] p.payload.is = "Subscribe" ->
               FlattenSeq([i \in DOMAIN p.payload.topics |->
                             String(p.payload.topics[i].topic) \o <<p.payload.topics[i].qos>>])
          [] p.payload.is = "Unsubscribe" ->
               FlattenSeq([i \in DOMAIN p.payload.topics |-> String(p.payload.topics[i])])
          [] p.payload.is = "Application" -> p.payload.bytes
          [] OTHER -> <<>>
  IN FlattenSeq(p.headers) \o payload

\* Two buffers have to be large enough: the first takes the headers, and grows
\* for every payload but a subscription (types.rs:322-328); the second, for the
\* whole packet, does not grow.
Fits(p, body, size) ==
  /\ Len(FlattenSeq(p.headers)) <= PayloadRoom
  /\ p.ty = PacketType.Subscribe => Len(body) <= PayloadRoom
  /\ 1 + Len(size) + Len(body) <= PacketRoom

\* Payload::encode leaves out a message that is published (types.rs:334), and
\* the length of the message of a will (types.rs:312).
IsComplete(p) ==
  /\ p.ty = PacketType.Publish => p.payload.bytes = <<>>
  /\ p.ty = PacketType.Connect => p.payload.will = <<>>

\* What fits and the client sends is laid out as MQTT asks, but for what the code
\* leaves out, and a packet of an acknowledgement is what the parser reads
\* (mod.rs:295-309).
EncodesAsMqtt ==
  \A i \in DOMAIN written :
    LET p    == requests[i]
        body == Layout(p)
        size == encode_vle(Len(body))
    IN Fits(p, body, size) /\ IsComplete(p) =>
         /\ written[i] = Bytes(<<16 * p.ty + p.flags>> \o size \o body)
         /\ p.ty \in AckTypes => packet("kept", written[i].bytes) = Done(p, <<>>)

\* The length of a packet is read as it was written, at every boundary of its
\* size, and a part of it as incomplete (parsers.rs:6-15, mod.rs:17-37).
LengthReadsBack == ReadsBack(length, <<>>) /\ ReadsBack(length, <<127, 255>>)

-----------------------------------------------------------------------------
(* What comments say, and the code does not do.                            *)

\* mod.rs:87: a fully formed packet in the slice is returned, so the decoder
\* asks for more only when the buffer does not begin with one.
WholePacketIsReturned ==
  state = "Open" /\ ~readable /\ Left # <<>> => ~IsPrefix(OnWire(Left[1]), buf)

\* It goes as far as it can: bits! drops half a byte of every packet, so the
\* parser never gets to the end of a CONNACK (parsers.rs:95-98), and no packet
\* of any server comes out.
NothingGetsThrough == halves = "dropped" => out = <<>>
=============================================================================
