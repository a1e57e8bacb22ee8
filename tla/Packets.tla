------------------------------ MODULE Packets ------------------------------
(***************************************************************************)
(* The packets the client sends, and their bytes (proto/mod.rs, types.rs   *)
(* and headers.rs).                                                        *)
(*                                                                         *)
(* Headers::set is unimplemented!() at this commit.  It is taken to append *)
(* what fmt_header of the header writes, which is what encode puts out, in *)
(* this order.  Strings are sequences of bytes.                            *)
(***************************************************************************)
EXTENDS Vle, SequencesExt

CONSTANTS
  PacketRoom,   \* the size of the buffer for a packet: 4096
  PayloadRoom   \* and of the one for its headers and payload: 2048

PacketType ==
  [Connect |-> 1, ConnAck |-> 2, Publish |-> 3, PubAck |-> 4, PubRec |-> 5,
   PubRel |-> 6, PubComp |-> 7, Subscribe |-> 8, SubAck |-> 9,
   Unsubscribe |-> 10, UnsubAck |-> 11, PingReq |-> 12, PingResp |-> 13,
   Disconnect |-> 14]

QOS2 == 4
QOS1 == 2
RET == 1

ConnFlags == [USERNAME |-> 128, PASSWORD |-> 64, WILL_RETAIN |-> 32, CLEAN_SESS |-> 2]

U16(n) == <<n \div 256, n % 256>>
String(s) == U16(Len(s) % 65536) \o s

Packet(ty, flags, headers, payload) ==
  [ty |-> ty, flags |-> flags, headers |-> headers, payload |-> payload]
NoPayload == [is |-> "None"]

-----------------------------------------------------------------------------
Flag(condition, bit) == IF condition THEN {bit} ELSE {}
Bits(set) == FoldSet(+, 0, set)

\* The QoS of a will keeps its value, which no one shifts to the two bits
\* MQTT has for it: 2 becomes CLEAN_SESS, and 1, which is no flag, is dropped.
will_flags(will) ==
  Flag(will.qos = 2, ConnFlags.CLEAN_SESS) \cup Flag(will.retain, ConnFlags.WILL_RETAIN)

\* creds is a user, or a user and a password, or nothing; lwt a will or nothing.
connect_packet(lwt, creds, clean, keepAlive, id) ==
  LET flags == UNION {will_flags(w) : w \in Range(lwt)}
                 \cup Flag(Len(creds) > 0, ConnFlags.USERNAME)
                 \cup Flag(Len(creds) > 1, ConnFlags.PASSWORD)
                 \cup Flag(clean, ConnFlags.CLEAN_SESS)
  IN Packet(PacketType.Connect, 0,
            <<String(<<77, 81, 84, 84>>), <<4>>, <<Bits(flags)>>, U16(keepAlive)>>,
            [is |-> "Connect", id |-> id, will |-> lwt, creds |-> creds])

\* The match on the QoS has no arm for 0, which is taken to do nothing.
publish_packet(qos, retain, topic, id, msg) ==
  Packet(PacketType.Publish,
         Bits(Flag(qos = 1, QOS1) \cup Flag(qos = 2, QOS2) \cup Flag(retain, RET)),
         <<String(topic)>> \o (IF qos > 0 THEN <<U16(id)>> ELSE <<>>),
         [is |-> "Application", bytes |-> msg])

AckTypes == {PacketType.PubAck, PacketType.PubRec, PacketType.PubRel, PacketType.PubComp}

\* pub_ack_packet, pub_rec_packet, pub_rel_packet and pub_comp_packet.
ack_packet(ty, id) ==
  Packet(ty, IF ty = PacketType.PubRel THEN QOS1 ELSE 0, <<U16(id)>>, NoPayload)

\* topics is a sequence of [topic, qos].
subscribe_packet(id, topics) ==
  Packet(PacketType.Subscribe, QOS1, <<U16(id)>>, [is |-> "Subscribe", topics |-> topics])

unsubscribe_packet(id, topics) ==
  Packet(PacketType.Unsubscribe, QOS1, <<U16(id)>>, [is |-> "Unsubscribe", topics |-> topics])

ping_req_packet == Packet(PacketType.PingReq, 0, <<>>, NoPayload)
disconnect_packet == Packet(PacketType.Disconnect, 0, <<>>, NoPayload)

-----------------------------------------------------------------------------
\* A BytesMut: what it holds, and the room behind that.  put does not make
\* room, it panics.  reserve makes at least the room it is asked for, and here
\* no more.
BytesMut(n) == [held |-> <<>>, room |-> n, panicked |-> FALSE]
reserve(b, n) == IF b.room >= n THEN b ELSE [b EXCEPT !.room = n]
put(b, s) ==
  IF Len(s) > b.room THEN [b EXCEPT !.panicked = TRUE]
  ELSE [b EXCEPT !.held = @ \o s, !.room = @ - Len(s)]

put_string(b, s) == put(reserve(b, Len(s) + 2), String(s))
put_bytes(b, s) == put(reserve(b, Len(s)), s)

encode_will(b, will) == put_bytes(put_string(b, will.topic), will.message)

\* The reserve of a subscription forgets the two bytes of the length: the QoS
\* finds no room behind a topic that fills the buffer exactly.
encode_subscription(b, s) ==
  put(put_string(reserve(b, Len(s.topic) + 1), s.topic), <<s.qos>>)

\* Mutant: the client identifier is left out when there are credentials.
encode_payload_anonymous(b, p) ==
  CASE p.is = "Connect" ->
         FoldLeft(put_string, FoldLeft(encode_will, b, p.will),
                  IF p.creds = <<>> THEN <<p.id>> ELSE p.creds)
    [] p.is = "Subscribe" -> FoldLeft(encode_subscription, b, p.topics)
    [] p.is = "Unsubscribe" -> FoldLeft(put_string, b, p.topics)
    [] OTHER -> b

\* Payload::encode: the message of a publish is among the cases it leaves out.
encode_payload(b, p) ==
  CASE p.is = "Connect" ->
         FoldLeft(put_string, FoldLeft(encode_will, put_string(b, p.id), p.will), p.creds)
    [] p.is = "Subscribe" -> FoldLeft(encode_subscription, b, p.topics)
    [] p.is = "Unsubscribe" -> FoldLeft(put_string, b, p.topics)
    [] OTHER -> b

Bytes(s) == [is |-> "Bytes", bytes |-> s]
None == [is |-> "None"]
Panic == [is |-> "Panic"]

encode(p) ==
  LET body == encode_payload(FoldLeft(put, BytesMut(PayloadRoom), p.headers), p.payload)
      size == encode_vle(Len(body.held))
      all  == FoldLeft(put, BytesMut(PacketRoom),
                       <<<<16 * p.ty + p.flags>>, size, body.held>>)
  IN IF body.panicked THEN Panic
     ELSE IF size = <<>> THEN None
     ELSE IF all.panicked THEN Panic ELSE Bytes(all.held)
=============================================================================
