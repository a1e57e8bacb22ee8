----------------------------- MODULE MCFraming -----------------------------
(***************************************************************************)
(* An instance of Framing for TLC.  Every server begins with a CONNACK.    *)
(***************************************************************************)
EXTENDS Framing

Narrow(p) == [packet |-> p, wide |-> FALSE]
Wide(p) == [packet |-> p, wide |-> TRUE]

Name == <<97>>
Id == <<0, 1>>

\* One that accepts and has the session, and one that refuses.
ConnAcks ==
  {Packet(PacketType.ConnAck, 0, <<<<1>>, <<0>>>>, NoPayload),
   Packet(PacketType.ConnAck, 0, <<<<0>>, <<5>>>>, NoPayload)}
PubAck == Packet(PacketType.PubAck, 0, <<Id>>, NoPayload)
PingResp == Packet(PacketType.PingResp, 0, <<>>, NoPayload)
SubAcks == Packet(PacketType.SubAck, 0, <<Id>>, SubAck(<<128, 1>>))
Message(flags, headers, bytes) ==
  Packet(PacketType.Publish, flags, headers, Application(bytes))
Unknown == Packet(15, 0, <<>>, NoPayload)
OfClient == Packet(PacketType.Disconnect, 0, <<>>, NoPayload)

Others ==
  {Narrow(PubAck), Wide(PubAck), Narrow(PingResp), Narrow(SubAcks),
   Narrow(Message(QOS1, <<Name, Id>>, <<7>>)),
   Narrow(Message(0, <<Name>>, <<8, 9>>)),
   Narrow(Message(0, <<Name>>, <<8>>)),
   Narrow(Unknown), Narrow(OfClient)}

\* What follows a packet is another, or the beginning of a long one.
Followers == {Narrow(PubAck), Narrow(Message(QOS1, <<Name, Id>>, <<7>>))}

\* The first packet of every server, and no other.
Greetings == {<<Narrow(c)>> : c \in ConnAcks}

MCScripts ==
  Greetings
  \cup {<<Narrow(c), o>> : c \in ConnAcks, o \in Others}
  \cup {<<Narrow(c), o, f>> : c \in ConnAcks, o \in Others, f \in Followers}

Topics == {<<>>, <<97>>, <<98, 99>>}

LWT == [topic |-> Name, message |-> <<7>>, qos |-> 2, retain |-> TRUE]

MCPackets ==
  {connect_packet(lwt, creds, clean, 300, id) :
     lwt \in {<<>>, <<LWT>>}, creds \in {<<>>, <<<<98>>>>, <<<<98>>, <<>>>>},
     clean \in BOOLEAN, id \in Topics}
  \cup {ack_packet(ty, 258) : ty \in AckTypes}
  \cup {publish_packet(qos, retain, name, 258, message) :
          qos \in 0..2, retain \in BOOLEAN, name \in Topics, message \in {<<>>, <<7>>}}
  \cup {subscribe_packet(1, [i \in DOMAIN ts |-> [topic |-> ts[i], qos |-> i % 3]]) :
          ts \in BoundedSeq(Topics, 3)}
  \cup {unsubscribe_packet(1, ts) : ts \in BoundedSeq(Topics, 3)}
  \cup {ping_req_packet, disconnect_packet}

MCRequests == {<<p>> : p \in MCPackets}

MCLengths ==
  UNION {{0, n - 1, n, n + 1} : n \in {128, 16384, 2097152}} \cup {321, MaxLength - 1, MaxLength}
=============================================================================
