------------------------------ MODULE Parsers ------------------------------
(***************************************************************************)
(* The parser of the packets a server sends (proto/parsers.rs).  Each      *)
(* parser returns Done with what follows, Incomplete, or Error.            *)
(*                                                                         *)
(* The type and the flags of a packet share a byte, and each is read with  *)
(* a bits! of its own.  bits! of nom gives up the rest of the byte its     *)
(* last bit is in.  So the flags are taken from the second byte and the    *)
(* length starts at the third ("dropped").  "kept" is what the parser is   *)
(* written for: the flags are the other half of the first byte.            *)
(***************************************************************************)
EXTENDS Packets

Halves == {"kept", "dropped"}

From(s, i) == SubSeq(s, i, Len(s))
ReadU16(s) == s[1] * 256 + s[2]

-----------------------------------------------------------------------------
PacketTypes == {PacketType[t] : t \in DOMAIN PacketType}

packet_type(s) ==
  CASE s = <<>> -> Incomplete
    [] s # <<>> /\ s[1] \div 16 \notin PacketTypes -> Error
    [] OTHER -> Done(s[1] \div 16, From(s, 2))

\* s starts behind the byte of the type.
packet_flags(halves, first, s) ==
  CASE halves = "kept" -> Done(first % 16, s)
    [] halves = "dropped" /\ s = <<>> -> Incomplete
    [] OTHER -> Done(s[1] \div 16, From(s, 2))

\* contains(QOS1 & QOS2): the two have no bit in common, and every packet
\* contains no flag at all.
qos12(flags) == TRUE

publish_hdrs(with_id, s) ==
  LET name == ReadU16(s)
      end  == 2 + name + (IF with_id THEN 2 ELSE 0)
  IN IF Len(s) < 2 \/ Len(s) < end THEN Incomplete
     ELSE Done(<<SubSeq(s, 3, name + 2)>>
                 \o (IF with_id THEN <<SubSeq(s, name + 3, end)>> ELSE <<>>),
               From(s, end + 1))

packet_headers(ty, flags, s) ==
  CASE ty = PacketType.ConnAck ->
         IF Len(s) < 2 THEN Incomplete ELSE Done(<<<<s[1]>>, <<s[2]>>>>, From(s, 3))
    [] ty = PacketType.Publish -> publish_hdrs(qos12(flags), s)
    [] ty \in AckTypes \cup {PacketType.SubAck, PacketType.UnsubAck} ->
         IF Len(s) < 2 THEN Incomplete ELSE Done(<<SubSeq(s, 1, 2)>>, From(s, 3))
    [] ty = PacketType.PingResp -> Done(<<>>, s)
    [] OTHER -> Error

SubAckReturnCodes == {0, 1, 2, 128}

\* Mutant: the code for a failure is forgotten.
sub_ack_return_codes_granted(s) ==
  LET good == {n \in 1..Len(s) : \A i \in 1..n : s[i] \in 0..2}
  IN IF good = {} THEN Error ELSE Done(SubSeq(s, 1, Max(good)), <<>>)

\* many1 ends at the first code that is none, unless that is the first of all.
sub_ack_return_codes(s) ==
  LET good == {n \in 1..Len(s) : \A i \in 1..n : s[i] \in SubAckReturnCodes}
  IN IF good = {} THEN Error ELSE Done(SubSeq(s, 1, Max(good)), <<>>)

Application(s) == [is |-> "Application", bytes |-> s]
SubAck(codes) == [is |-> "SubAck", codes |-> codes]

\* s is exactly what the length leaves for the payload.
packet_payload(ty, s) ==
  CASE ty = PacketType.Publish -> Done(Application(s), <<>>)
    [] ty = PacketType.SubAck ->
         LET codes == sub_ack_return_codes(s)
         IN IF codes = Error THEN Error ELSE Done(SubAck(codes.value), <<>>)
    [] OTHER -> Done(NoPayload, s)

\* re_len - (bh_size - ah_size) is below zero: unsigned numbers cannot be.
Underflow == [is |-> "Underflow"]

\* Mutant: the length counts from behind the headers.
WithPayloadBehind(ty, flags, re_len, before, headers) ==
  IF Len(headers.rest) < re_len THEN Incomplete
  ELSE LET payload == packet_payload(ty, SubSeq(headers.rest, 1, re_len))
       IN IF payload = Error THEN Error
          ELSE Done(Packet(ty, flags, headers.value, payload.value),
                    From(headers.rest, re_len + 1))

\* What is left of the packet when its headers are read: re_len counts from
\* before the headers.
WithPayload(ty, flags, re_len, before, headers) ==
  LET size == re_len - (Len(before) - Len(headers.rest)) IN
  IF size < 0 THEN Underflow
  ELSE IF Len(headers.rest) < size THEN Incomplete
  ELSE LET payload == packet_payload(ty, SubSeq(headers.rest, 1, size))
       IN IF payload = Error THEN Error
          ELSE Done(Packet(ty, flags, headers.value, payload.value),
                    From(headers.rest, size + 1))

packet(halves, s) ==
  LET ty      == packet_type(s)
      flags   == packet_flags(halves, s[1], ty.rest)
      re_len  == decode_vle(flags.rest)
      headers == packet_headers(ty.value, flags.value, re_len.rest)
  IN IF ty.is # "Done" THEN ty
     ELSE IF flags.is # "Done" THEN flags
     ELSE IF re_len.is # "Done" THEN re_len
     ELSE IF headers.is # "Done" THEN headers
     ELSE WithPayload(ty.value, flags.value, re_len.value, re_len.rest, headers)
=============================================================================
