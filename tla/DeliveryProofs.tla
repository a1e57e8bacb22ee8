--------------------------- MODULE DeliveryProofs ---------------------------
(***************************************************************************)
(* The publish flows keep the promises of module Delivery, for any         *)
(* messages, any faults of the store and any number of new connections.    *)
(*                                                                         *)
(* The invariant says what each packet on the stream means: an             *)
(* acknowledgement of the server that it has taken a message, a PUBLISH of *)
(* the server that nobody has answered yet, a PUBREL that the message was  *)
(* kept.  What the client is told needs an identifier of its own for each  *)
(* message (the literal 4 of outbound_handlers.rs:97 is not); what it is   *)
(* delivered does not.                                                     *)
(*                                                                         *)
(* Two more invariants stand on that: what is left in the store of a       *)
(* settled flow (Tidy), and that an answer finds the state it is for       *)
(* (Turns), so that no handler panics.                                     *)
(***************************************************************************)
EXTENDS PublishFlowsProofs, SequenceTheorems, FiniteSetTheorems

-----------------------------------------------------------------------------
(* Streams.                                                                *)

\* At most one packet q is on the stream s.
Single(s, q) == \A i, j \in DOMAIN s : s[i] = q /\ s[j] = q => i = j

\* What is left of a stream when its first packet is taken.
LEMMA Takes ==
  ASSUME NEW S, NEW s \in Seq(S), s # <<>>
  PROVE  /\ Head(s) \in S /\ Tail(s) \in Seq(S)
         /\ Head(s) \in Range(s) /\ Range(Tail(s)) \subseteq Range(s)
         /\ \A q : Single(s, q) =>
              Single(Tail(s), q) /\ (Head(s) = q => q \notin Range(Tail(s)))
<1>1. /\ Head(s) \in S /\ Tail(s) \in Seq(S) /\ Len(Tail(s)) = Len(s) - 1
      /\ \A i \in 1..Len(Tail(s)) : Tail(s)[i] = s[i + 1]
  BY HeadTailProperties
<1>2. /\ Len(s) \in Nat \ {0} /\ DOMAIN s = 1..Len(s)
      /\ DOMAIN Tail(s) = 1..Len(s) - 1 /\ Head(s) = s[1]
  BY <1>1, EmptySeq, LenProperties
<1>3. Head(s) \in Range(s) /\ Range(Tail(s)) \subseteq Range(s)
  BY <1>1, <1>2 DEF Range
<1>4. ASSUME NEW q, Single(s, q) PROVE Single(Tail(s), q)
  <2> SUFFICES ASSUME NEW i \in 1..Len(s) - 1, NEW j \in 1..Len(s) - 1,
                      Tail(s)[i] = q, Tail(s)[j] = q
               PROVE  i = j
    BY <1>2 DEF Single
  <2>1. s[i + 1] = q /\ s[j + 1] = q /\ i + 1 \in DOMAIN s /\ j + 1 \in DOMAIN s
    BY <1>1, <1>2
  <2>2. i + 1 = j + 1
    BY <1>4, <2>1 DEF Single
  <2> QED
    BY <2>2
<1>5. ASSUME NEW q, Single(s, q), Head(s) = q PROVE q \notin Range(Tail(s))
  <2> SUFFICES ASSUME NEW i \in 1..Len(s) - 1, Tail(s)[i] = q PROVE FALSE
    BY <1>2 DEF Range
  <2>1. s[i + 1] = q /\ s[1] = q /\ i + 1 \in DOMAIN s /\ 1 \in DOMAIN s
    BY <1>1, <1>2, <1>5
  <2>2. i + 1 = 1
    BY <1>5, <2>1 DEF Single
  <2> QED
    BY <2>2
<1> QED
  BY <1>1, <1>3, <1>4, <1>5

\* What is on a stream when a packet is put on it.
LEMMA Puts ==
  ASSUME NEW S, NEW s \in Seq(S), NEW p \in S
  PROVE  /\ Append(s, p) \in Seq(S)
         /\ Range(Append(s, p)) = Range(s) \cup {p}
         /\ \A q : Single(s, q) /\ (p # q \/ q \notin Range(s)) => Single(Append(s, p), q)
<1> DEFINE n == Len(s)
<1>1. /\ n \in Nat /\ DOMAIN s = 1..n /\ DOMAIN Append(s, p) = 1..n + 1
      /\ \A i \in 1..n : Append(s, p)[i] = s[i]
      /\ Append(s, p)[n + 1] = p
      /\ Append(s, p) \in Seq(S)
  BY LenProperties
<1>2. 1..n + 1 = 1..n \cup {n + 1} /\ n + 1 \notin 1..n
  BY <1>1
<1> HIDE DEF n
<1>3. Range(Append(s, p)) = Range(s) \cup {p}
  BY <1>1, <1>2 DEF Range
<1>4. ASSUME NEW q, Single(s, q), p # q \/ q \notin Range(s)
      PROVE  Single(Append(s, p), q)
  BY <1>1, <1>2, <1>4 DEF Single, Range
<1> QED
  BY <1>1, <1>3, <1>4

\* An order of a finite set has each of its packets once.
LEMMA Orders ==
  ASSUME NEW S, IsFiniteSet(S), NEW s \in SetToSeqs(S)
  PROVE  s \in Seq(S) /\ Range(s) \subseteq S /\ \A q : Single(s, q)
<1>1. Cardinality(S) \in Nat
  BY FS_CardinalityType
<1>2. s \in [1..Cardinality(S) -> S]
  BY DEF SetToSeqs
<1>3. s \in Seq(S)
  BY <1>1, <1>2, SeqDef
<1> QED
  BY <1>2, <1>3 DEF SetToSeqs, Single, Range

-----------------------------------------------------------------------------
(* Types, with what each side can have put on the stream.                  *)

FromClient ==
  {Publish(IdOf[m], m) : m \in Out} \cup {Packet("PubRel", id) : id \in Ids}
    \cup {Packet("PubAck", x) : x \in In1}
    \cup {Packet("PubRec", x) : x \in In2} \cup {Packet("PubComp", x) : x \in In2}

FromServer ==
  {Publish(x, x) : x \in In} \cup {Packet("PubRel", x) : x \in In}
    \cup {Packet("PubAck", id) : id \in Ids} \cup {Packet("PubRec", id) : id \in Ids}
    \cup {Packet("PubComp", id) : id \in Ids}

Types ==
  /\ status \in {"Connected", "Waiting", "Suspended", "Crashed"}
  /\ received \subseteq In2
  /\ store \subseteq {"Publish", "PubRel"} \X Out
  /\ delivered \in [In -> Nat]
  /\ link \in {"open", "broken"}
  /\ up \in Seq(FromClient) /\ down \in Seq(FromServer)
  /\ got \subseteq Out
  /\ unreleased \subseteq Ids
  /\ phase \in [In -> {"new", "published", "released", "done"}]
  /\ reconnects \in 0..MaxReconnects /\ restarts \in 0..MaxRestarts

\* What a packet of the client can be.
LEMMA ClientPackets ==
  /\ \A m \in Out : Publish(IdOf[m], m) \in FromClient
  /\ \A id \in Ids : Packet("PubRel", id) \in FromClient
  /\ \A x \in In1 : Packet("PubAck", x) \in FromClient
  /\ \A x \in In2 : Packet("PubRec", x) \in FromClient /\ Packet("PubComp", x) \in FromClient
  /\ \A p \in FromClient :
       /\ p.ty = "Publish" => p.msg \in Out /\ p.id = IdOf[p.msg]
                                /\ p = Publish(IdOf[p.msg], p.msg)
       /\ p.ty = "PubRel" => p.id \in Ids /\ p = Packet("PubRel", p.id)
       /\ p.ty = "PubAck" => p.id \in In1
       /\ p.ty \in {"PubRec", "PubComp"} => p.id \in In2 /\ p = Packet(p.ty, p.id)
<1> SUFFICES ASSUME NEW p \in FromClient
             PROVE  /\ p.ty = "Publish" => p.msg \in Out /\ p.id = IdOf[p.msg]
                                              /\ p = Publish(IdOf[p.msg], p.msg)
                    /\ p.ty = "PubRel" => p.id \in Ids /\ p = Packet("PubRel", p.id)
                    /\ p.ty = "PubAck" => p.id \in In1
                    /\ p.ty \in {"PubRec", "PubComp"} => p.id \in In2 /\ p = Packet(p.ty, p.id)
  BY DEF FromClient
<1>1. CASE \E m \in Out : p = Publish(IdOf[m], m)
  BY <1>1 DEF Publish
<1>2. CASE \E id \in Ids : p = Packet("PubRel", id)
  BY <1>2 DEF Packet
<1>3. CASE \E x \in In1 : p = Packet("PubAck", x)
  BY <1>3 DEF Packet
<1>4. CASE \E x \in In2 : p = Packet("PubRec", x)
  BY <1>4 DEF Packet
<1>5. CASE \E x \in In2 : p = Packet("PubComp", x)
  BY <1>5 DEF Packet
<1> QED
  BY <1>1, <1>2, <1>3, <1>4, <1>5 DEF FromClient

\* What a packet of the server can be.
LEMMA ServerPackets ==
  /\ \A x \in In : Publish(x, x) \in FromServer /\ Packet("PubRel", x) \in FromServer
  /\ \A id \in Ids : /\ Packet("PubAck", id) \in FromServer
                     /\ Packet("PubRec", id) \in FromServer
                     /\ Packet("PubComp", id) \in FromServer
  /\ \A p \in FromServer :
       /\ p.ty = "Publish" => p.msg \in In /\ p = Publish(p.msg, p.msg)
       /\ p.ty = "PubRel" => p.id \in In /\ p = Packet("PubRel", p.id)
       /\ p.ty \in {"PubAck", "PubRec", "PubComp"} => p.id \in Ids /\ p = Packet(p.ty, p.id)
<1> SUFFICES ASSUME NEW p \in FromServer
             PROVE  /\ p.ty = "Publish" => p.msg \in In /\ p = Publish(p.msg, p.msg)
                    /\ p.ty = "PubRel" => p.id \in In /\ p = Packet("PubRel", p.id)
                    /\ p.ty \in {"PubAck", "PubRec", "PubComp"} =>
                         p.id \in Ids /\ p = Packet(p.ty, p.id)
  BY DEF FromServer
<1>1. CASE \E x \in In : p = Publish(x, x)
  BY <1>1 DEF Publish
<1>2. CASE \E x \in In : p = Packet("PubRel", x)
  BY <1>2 DEF Packet
<1>3. CASE \E id \in Ids : p = Packet("PubAck", id)
  BY <1>3 DEF Packet
<1>4. CASE \E id \in Ids : p = Packet("PubRec", id)
  BY <1>4 DEF Packet
<1>5. CASE \E id \in Ids : p = Packet("PubComp", id)
  BY <1>5 DEF Packet
<1> QED
  BY <1>1, <1>2, <1>3, <1>4, <1>5 DEF FromServer

\* The packets of the type invariant.
LEMMA KnownPackets == FromClient \subseteq Packets /\ FromServer \subseteq Packets
BY PublishAssumption
   DEF FromClient, FromServer, Packets, PacketTypes, Publish, Packet, Out, In

\* What the server repeats is a finite set of its packets.
LEMMA Repetitions ==
  ASSUME Types
  PROVE  /\ IsFiniteSet(Range(Unsettled)) /\ Range(Unsettled) \subseteq FromServer
         /\ \A x \in In : Publish(x, x) \in Range(Unsettled) => phase[x] = "published"
         /\ \A x \in In : Packet("PubRel", x) \in Range(Unsettled) => phase[x] = "released"
<1> DEFINE Late == {y \in In : phase[y] \in {"published", "released"}}
<1>1. IsFiniteSet(Late)
  BY PublishAssumption, FS_Subset
<1>2. DOMAIN Unsettled = Late /\ Range(Unsettled) = {Unsettled[x] : x \in Late}
  BY DEF Unsettled, Range
<1>3. IsFiniteSet(Range(Unsettled))
  <2>1. Unsettled \in Surjection(Late, Range(Unsettled))
    BY DEF Unsettled, Surjection, Range
  <2> QED
    BY <1>1, <2>1, FS_Surjection
<1>4. \A x \in Late : Unsettled[x] = IF phase[x] = "published" THEN Publish(x, x)
                                     ELSE Packet("PubRel", x)
  BY DEF Unsettled
<1>5. \A x, y \in In : /\ Publish(x, x) # Packet("PubRel", y)
                       /\ Publish(x, x) = Publish(y, y) => x = y
                       /\ Packet("PubRel", x) = Packet("PubRel", y) => x = y
  BY DEF Publish, Packet
<1>6. Range(Unsettled) \subseteq FromServer
  BY <1>2, <1>4, ServerPackets
<1>7. ASSUME NEW x \in In, Publish(x, x) \in Range(Unsettled) PROVE phase[x] = "published"
  BY <1>2, <1>4, <1>5, <1>7
<1>8. ASSUME NEW x \in In, Packet("PubRel", x) \in Range(Unsettled)
      PROVE  phase[x] = "released"
  BY <1>2, <1>4, <1>5, <1>8
<1> QED
  BY <1>3, <1>6, <1>7, <1>8

\* Each handler puts what it may on the stream, and keeps the tables' types.
LEMMA ReceiveTypes ==
  ASSUME IInv, Types, Receive
  PROVE  Types'
<1> DEFINE p == Head(down)
<1> USE DEF Types
<1>1. p \in FromServer /\ Tail(down) \in Seq(FromServer)
  BY Takes DEF Receive
<1>2. UNCHANGED <<got, unreleased, phase, reconnects, restarts>>
  BY DEF Receive, server, counts
<1>3. ASSUME Take PROVE link' = link /\ up' = up /\ down' \in Seq(FromServer)
  BY <1>1, <1>3 DEF Take
<1>4. ASSUME NEW q \in FromClient, TakeAndSend(q)
      PROVE  link' = link /\ up' \in Seq(FromClient) /\ down' \in Seq(FromServer)
  BY <1>1, <1>4, Puts DEF TakeAndSend
<1>5. CASE Ignore
  BY <1>2, <1>3, <1>5 DEF Ignore, tables, caller
<1>6. CASE Panic
  BY <1>2, <1>3, <1>6 DEF Panic, tables
<1>7. CASE publish_handler(p.msg)
  <2> SUFFICES ASSUME NEW x \in In, x = p.msg,
                      \/ /\ x \in In1 /\ Deliver(x)
                         /\ TakeAndSend(Packet("PubAck", x)) /\ UNCHANGED received
                      \/ /\ x \in In2 /\ received' = received \cup {x}
                         /\ TakeAndSend(Packet("PubRec", x)) /\ UNCHANGED delivered,
                      UNCHANGED <<status, store>>
               PROVE  Types'
    BY <1>5, <1>7 DEF publish_handler, tables, caller, In
  <2>1. Packet("PubAck", x) \in FromClient \/ x \notin In1
    BY ClientPackets
  <2>2. Packet("PubRec", x) \in FromClient \/ x \notin In2
    BY ClientPackets
  <2>3. delivered' \in [In -> Nat] /\ received' \subseteq In2
    BY DEF Deliver
  <2> QED
    BY <1>2, <1>4, <2>1, <2>2, <2>3
<1>8. CASE pub_rel_handler(p.id)
  <2> SUFFICES ASSUME NEW x \in In2, x = p.id, received' = received \ {x}, Deliver(x),
                      TakeAndSend(Packet("PubComp", x)), UNCHANGED <<status, store>>
               PROVE  Types'
    BY <1>5, <1>8 DEF pub_rel_handler
  <2>1. delivered' \in [In -> Nat]
    <3>1. x \in In /\ delivered[x] + 1 \in Nat
      BY DEF In
    <3> QED
      BY <3>1 DEF Deliver
  <2> QED
    BY <1>2, <1>4, <2>1, ClientPackets
<1>9. CASE pub_ack_handler(p.id)
  BY <1>2, <1>3, <1>5, <1>6, <1>9 DEF pub_ack_handler
<1>10. CASE pub_comp_handler(p.id)
  BY <1>2, <1>3, <1>5, <1>6, <1>10 DEF pub_comp_handler
<1>11. CASE pub_rec_handler(p.id)
  <2> SUFFICES ASSUME NEW id \in Ids, id = p.id, sent[id] # NoEntry,
                      \/ /\ store' = (store \ {Persisted(sent[id])})
                                       \cup {Persisted(Entry("Released", sent[id].msg))}
                         /\ TakeAndSend(Packet("PubRel", id))
                      \/ store' \subseteq store /\ Take,
                      UNCHANGED <<status, received, delivered>>
               PROVE  Types'
    BY <1>5, <1>6, <1>11 DEF pub_rec_handler, InState, Tracked
  <2>1. sent[id].msg \in Out
    BY DEF IInv, Tables, Entries
  <2>2. Persisted(Entry("Released", sent[id].msg)) \in {"Publish", "PubRel"} \X Out
    BY <2>1 DEF Persisted, Entry
  <2>3. store' \subseteq {"Publish", "PubRel"} \X Out
    BY <2>2
  <2> QED
    BY <1>2, <1>3, <1>4, <2>3, ClientPackets
<1> QED
  BY <1>5, <1>7, <1>8, <1>9, <1>10, <1>11 DEF Receive

\* The server answers with packets of its own.
LEMMA ServerTypes ==
  ASSUME Types, ServerReceive
  PROVE  Types'
<1> DEFINE p == Head(up)
<1> USE DEF Types
<1>1. p \in FromClient /\ up' \in Seq(FromClient)
  BY Takes DEF ServerReceive
<1>2. UNCHANGED <<status, received, store, delivered, link, reconnects, restarts>>
  BY DEF ServerReceive, tables, caller, counts
<1>3. ASSUME NEW q \in FromServer, Reply(q) PROVE down' \in Seq(FromServer)
  BY <1>3, Puts DEF Reply
<1>4. CASE p.ty = "Publish"
  <2>1. p.msg \in Out /\ p.id \in Ids
    BY <1>1, <1>4, ClientPackets, PublishAssumption
  <2>2. /\ got' \subseteq Out /\ unreleased' \subseteq Ids /\ phase' = phase
        /\ Reply(Packet("PubAck", p.id)) \/ Reply(Packet("PubRec", p.id))
    BY <1>4, <2>1 DEF ServerReceive
  <2> QED
    BY <1>1, <1>2, <1>3, <2>1, <2>2, ServerPackets
<1>5. CASE p.ty = "PubRel"
  <2>1. p.id \in Ids
    BY <1>1, <1>5, ClientPackets
  <2>2. /\ unreleased' \subseteq Ids /\ UNCHANGED <<got, phase>>
        /\ Reply(Packet("PubComp", p.id))
    BY <1>5 DEF ServerReceive
  <2> QED
    BY <1>1, <1>2, <1>3, <2>1, <2>2, ServerPackets
<1>6. CASE p.ty = "PubRec"
  <2>1. p.id \in In
    BY <1>1, <1>6, ClientPackets DEF In
  <2>2. /\ phase' = [phase EXCEPT ![p.id] = "released"] /\ UNCHANGED <<got, unreleased>>
        /\ Reply(Packet("PubRel", p.id))
    BY <1>6 DEF ServerReceive
  <2> QED
    BY <1>1, <1>2, <1>3, <2>1, <2>2, ServerPackets
<1>7. CASE p.ty \in {"PubAck", "PubComp"}
  <2>1. phase' = [phase EXCEPT ![p.id] = "done"] /\ UNCHANGED <<got, unreleased, down>>
    BY <1>7 DEF ServerReceive
  <2> QED
    BY <1>1, <1>2, <2>1
<1> QED
  BY <1>4, <1>5, <1>6, <1>7 DEF ServerReceive

\* Every step keeps the types.
LEMMA TypesStep ==
  ASSUME IInv, Types, Next
  PROVE  Types'
<1> USE DEF Types, tables, caller, stream, server, counts
<1>1. ASSUME NEW m \in Out, ClientPublish(m) PROVE Types'
  <2>1. store' \subseteq {"Publish", "PubRel"} \X Out
    BY <1>1 DEF ClientPublish
  <2>2. up' \in Seq(FromClient)
    <3>1. Append(up, Publish(IdOf[m], m)) \in Seq(FromClient)
      BY Puts, ClientPackets
    <3>2. up' = up \/ up' = Append(up, Publish(IdOf[m], m))
      BY <1>1 DEF ClientPublish
    <3> QED
      BY <3>1, <3>2
  <2> QED
    BY <1>1, <2>1, <2>2 DEF ClientPublish
<1>2. CASE Receive
  BY <1>2, ReceiveTypes
<1>3. CASE Disconnect \/ Suspend
  BY <1>3 DEF Disconnect, Suspend
<1>4. CASE ConnectionLost
  BY <1>4, EmptySeq DEF ConnectionLost
<1>5. CASE Reconnect
  <2>1. down' \in Seq(FromServer)
    BY <1>5, Repetitions, Orders, SeqMonotonic DEF Reconnect
  <2> QED
    BY <1>5, <2>1, PublishAssumption, EmptySeq DEF Reconnect
<1>6. CASE Restart
  BY <1>6, PublishAssumption, EmptySeq DEF Restart
<1>7. ASSUME NEW x \in In, ServerPublish(x) PROVE Types'
  <2>1. down' \in Seq(FromServer)
    BY <1>7, Puts, ServerPackets DEF ServerPublish
  <2> QED
    BY <1>7, <2>1 DEF ServerPublish
<1>8. CASE ServerReceive
  BY <1>8, ServerTypes
<1> QED
  BY <1>1, <1>2, <1>3, <1>4, <1>5, <1>6, <1>7, <1>8 DEF Next

\* The types follow from what each side can send.
LEMMA TypesHold == Spec => [](IInv /\ Types)
<1>1. Init => Types
  BY PublishAssumption, EmptySeq DEF Init, Types
<1>2. IInv /\ Types /\ [Next]_vars => Types'
  BY TypesStep DEF Types, vars, tables, caller, stream, server, counts
<1> QED
  BY <1>1, <1>2, Inductive, PTL DEF Spec

\* Every variable keeps its type (LoopData, mqtt_loop.rs:53-111, and the
\* packets the handlers send), for any numbering of the packets.
THEOREM TypeCorrect == Spec => []TypeOK
<1>1. IInv /\ Types => TypeOK
  BY KnownPackets, SeqMonotonic DEF IInv, Tables, Replies, Types, TypeOK
<1> QED
  BY <1>1, TypesHold, PTL

-----------------------------------------------------------------------------
(* What the callers are told.                                              *)

OwnIds == \A m, n \in Out : IdOf[m] = IdOf[n] => m = n

\* An acknowledgement on the stream, a flow that waits to be released on
\* either side, and an answered call: the server has the message.
Taken ==
  /\ \A m \in Out : Publish(IdOf[m], m) \in Range(up) => reply[m] # "idle"
  /\ \A id \in Ids : sent[id] # NoEntry => IdOf[sent[id].msg] = id
  /\ \A m \in Out : Packet("PubAck", IdOf[m]) \in Range(down) => m \in got
  /\ \A m \in Out : Packet("PubRec", IdOf[m]) \in Range(down) => m \in got
  /\ \A m \in Out : IdOf[m] \in unreleased => m \in got
  /\ \A m \in Out : sent[IdOf[m]] = Entry("Released", m) => m \in got
  /\ OkMeansTaken

\* A packet tells its kind and its identifier.
LEMMA Distinct ==
  /\ \A a, b, i, j : Packet(a, i) = Packet(b, j) => a = b /\ i = j
  /\ \A a, i, j, m : Publish(j, m) = Packet(a, i) => a = "Publish"
  /\ \A i, j, m, n : Publish(i, m) = Publish(j, n) => i = j /\ m = n
BY DEF Packet, Publish

\* A flow that ends, or all of them: what is left says no more than before.
LEMMA FewerFlows ==
  ASSUME Taken, got' = got, unreleased' = unreleased,
         Range(up') \subseteq Range(up),
         Range(down') \subseteq Range(down),
         \A id \in Ids : sent'[id] \in {sent[id], NoEntry},
         \A m \in Out : sent'[IdOf[m]] = Entry("Released", m)
                          => sent[IdOf[m]] = Entry("Released", m),
         \A m \in Out : /\ reply'[m] = "idle" => reply[m] = "idle"
                        /\ reply'[m] = "ok" => reply[m] = "ok" \/ m \in got
  PROVE  Taken'
BY DEF Taken, OkMeansTaken

\* A handler sees the answer of the server while it is still on the stream.
LEMMA ReceiveTaken ==
  ASSUME IInv, Types, Taken, Receive
  PROVE  Taken'
<1> DEFINE p == Head(down)
<1> USE PublishAssumption
<1>1. /\ p \in FromServer /\ p \in Range(down) /\ Range(Tail(down)) \subseteq Range(down)
      /\ down # <<>>
  BY Takes DEF Receive, Types
<1>2. got' = got /\ unreleased' = unreleased
  BY DEF Receive, server
<1>3. ASSUME Take PROVE Range(down') \subseteq Range(down) /\ up' = up
  BY <1>1, <1>3 DEF Take
<1>4. ASSUME NEW q \in FromClient, TakeAndSend(q)
      PROVE  Range(down') \subseteq Range(down) /\ Range(up') = Range(up) \cup {q}
  BY <1>1, <1>4, Puts DEF TakeAndSend, Types
<1>5. ASSUME NEW ty, NEW i, ty # "Publish", Packet(ty, i) \in FromClient,
             TakeAndSend(Packet(ty, i)), UNCHANGED <<sent, reply>>
      PROVE  Taken'
  BY <1>2, <1>4, <1>5, Distinct DEF Taken, OkMeansTaken
<1>6. CASE Ignore
  BY <1>2, <1>3, <1>6, FewerFlows DEF Ignore, tables, caller
<1>7. CASE Panic
  BY <1>2, <1>3, <1>7, FewerFlows DEF Panic, tables, Resolve
<1>8. CASE publish_handler(p.msg)
  <2> SUFFICES ASSUME NEW x, x = p.msg,
                      \/ x \in In1 /\ TakeAndSend(Packet("PubAck", x))
                      \/ x \in In2 /\ TakeAndSend(Packet("PubRec", x)),
                      UNCHANGED <<sent, reply>>
               PROVE  Taken'
    BY <1>6, <1>8 DEF publish_handler, tables, caller
  <2> QED
    BY <1>5, ClientPackets
<1>9. CASE pub_rel_handler(p.id)
  BY <1>5, <1>6, <1>9, ClientPackets DEF pub_rel_handler, Types
<1>10. ASSUME NEW id \in Ids, sent[id] # NoEntry, sent[id].msg \in got, Take, Forget(id),
              NEW v \in {"ok", "lost", "persistence"}, Resolve({sent[id].msg}, v)
       PROVE  Taken'
  <2>1. \A j \in Ids : sent'[j] = IF j = id THEN NoEntry ELSE sent[j]
    BY <1>10 DEF Forget, IInv, Tables
  <2>2. \A m \in Out : sent'[IdOf[m]] = Entry("Released", m)
                          => sent[IdOf[m]] = Entry("Released", m)
    <3>1. \A m \in Out : Entry("Released", m) # NoEntry
      BY DEF Entry, Entries
    <3> QED
      BY <2>1, <3>1
  <2>3. \A m \in Out : /\ reply'[m] = "idle" => reply[m] = "idle"
                       /\ reply'[m] = "ok" => reply[m] = "ok" \/ m \in got
    BY <1>10 DEF Resolve
  <2> QED
    BY <1>2, <1>3, <1>10, <2>1, <2>2, <2>3, FewerFlows
<1>11. CASE p.ty = "PubAck" /\ pub_ack_handler(p.id)
  <2> SUFFICES ASSUME NEW id \in Ids, id = p.id, sent[id] # NoEntry, Take, Forget(id),
                      \/ Resolve({sent[id].msg}, "ok")
                      \/ Resolve({sent[id].msg}, "persistence")
               PROVE  Taken'
    BY <1>6, <1>7, <1>11 DEF pub_ack_handler, InState, Tracked
  <2>1. sent[id].msg \in Out /\ IdOf[sent[id].msg] = id
    BY DEF Taken, IInv, Tables, Entries
  <2>2. p = Packet("PubAck", id)
    BY <1>1, <1>11, ServerPackets
  <2>3. sent[id].msg \in got
    BY <1>1, <2>1, <2>2 DEF Taken
  <2> QED
    BY <1>10, <2>3
<1>12. CASE p.ty = "PubComp" /\ pub_comp_handler(p.id)
  <2> SUFFICES ASSUME NEW id \in Ids, sent[id] # NoEntry, sent[id].st = "Released",
                      Take, Forget(id),
                      \/ Resolve({sent[id].msg}, "ok")
                      \/ Resolve({sent[id].msg}, "persistence")
               PROVE  Taken'
    BY <1>6, <1>7, <1>12 DEF pub_comp_handler, InState, Tracked
  <2>1. sent[id].msg \in Out /\ IdOf[sent[id].msg] = id
    BY DEF Taken, IInv, Tables, Entries
  <2>2. sent[id] = Entry("Released", sent[id].msg)
    BY DEF IInv, Tables, Entries, Entry
  <2>3. sent[id].msg \in got
    BY <2>1, <2>2 DEF Taken
  <2> QED
    BY <1>10, <2>3
<1>13. CASE p.ty = "PubRec" /\ pub_rec_handler(p.id)
  <2> SUFFICES ASSUME NEW id \in Ids, id = p.id, sent[id] # NoEntry,
                      \/ /\ sent' = [sent EXCEPT ![id] = Entry("Released", sent[id].msg)]
                         /\ TakeAndSend(Packet("PubRel", id)) /\ UNCHANGED reply
                      \/ /\ Forget(id) /\ Take
                         /\ \/ Resolve({sent[id].msg}, "lost")
                            \/ Resolve({sent[id].msg}, "persistence")
               PROVE  Taken'
    BY <1>6, <1>7, <1>13 DEF pub_rec_handler, InState, Tracked
  <2>1. sent[id].msg \in Out /\ IdOf[sent[id].msg] = id
    BY DEF Taken, IInv, Tables, Entries
  <2>2. p = Packet("PubRec", id)
    BY <1>1, <1>13, ServerPackets
  <2>3. sent[id].msg \in got
    BY <1>1, <2>1, <2>2 DEF Taken
  <2>4. CASE /\ sent' = [sent EXCEPT ![id] = Entry("Released", sent[id].msg)]
             /\ TakeAndSend(Packet("PubRel", id)) /\ UNCHANGED reply
    <3>1. \A j \in Ids : sent'[j] = IF j = id THEN Entry("Released", sent[id].msg) ELSE sent[j]
      BY <2>4 DEF IInv, Tables
    <3>2. \A m \in Out : sent'[IdOf[m]] = Entry("Released", m) => m \in got
      BY <2>1, <2>3, <3>1 DEF Taken, Entry
    <3>3. \A j \in Ids : sent'[j] # NoEntry => IdOf[sent'[j].msg] = j
      BY <2>1, <3>1 DEF Taken, Entry
    <3>4. Range(down') \subseteq Range(down) /\ Range(up') = Range(up) \cup {Packet("PubRel", id)}
      BY <1>4, <2>4, ClientPackets
    <3> QED
      BY <1>2, <2>4, <3>2, <3>3, <3>4, Distinct DEF Taken, OkMeansTaken
  <2> QED
    BY <1>10, <2>3, <2>4
<1> QED
  BY <1>6, <1>8, <1>9, <1>11, <1>12, <1>13 DEF Receive

\* The server takes a message before it answers.
LEMMA ServerTaken ==
  ASSUME OwnIds, Types, Taken, ServerReceive
  PROVE  Taken'
<1> DEFINE p == Head(up)
<1> USE PublishAssumption
<1>1. p \in FromClient /\ Range(up') \subseteq Range(up)
  BY Takes DEF ServerReceive, Types
<1>2. UNCHANGED <<sent, reply>> /\ got \subseteq got'
  BY DEF ServerReceive, tables, caller
<1>3. ASSUME NEW q \in FromServer, Reply(q) PROVE Range(down') = Range(down) \cup {q}
  BY <1>3, Puts DEF Reply, Types
<1>4. CASE p.ty = "Publish"
  <2> DEFINE n == p.msg
  <2>1. n \in Out /\ p.id = IdOf[n] /\ IdOf[n] \in Ids
    BY <1>1, <1>4, ClientPackets
  <2>2. n \in got'
    BY <1>4, <2>1 DEF ServerReceive, Taken
  <2>3. /\ unreleased' \subseteq unreleased \cup {IdOf[n]}
        /\ Reply(Packet("PubAck", IdOf[n])) \/ Reply(Packet("PubRec", IdOf[n]))
    BY <1>4, <2>1 DEF ServerReceive
  <2>4. \/ Range(down') = Range(down) \cup {Packet("PubAck", IdOf[n])}
        \/ Range(down') = Range(down) \cup {Packet("PubRec", IdOf[n])}
    BY <1>3, <2>1, <2>3, ServerPackets
  <2>5. \A m \in Out : IdOf[m] = IdOf[n] => m \in got'
    BY <2>1, <2>2 DEF OwnIds
  <2> QED
    BY <1>1, <1>2, <2>3, <2>4, <2>5, Distinct DEF Taken, OkMeansTaken
<1>5. ASSUME NEW q \in FromServer, Reply(q), unreleased' \subseteq unreleased,
             \A i : q # Packet("PubAck", i) /\ q # Packet("PubRec", i)
      PROVE  Taken'
  BY <1>1, <1>2, <1>3, <1>5 DEF Taken, OkMeansTaken
<1>6. CASE p.ty = "PubRel"
  BY <1>1, <1>5, <1>6, ClientPackets, ServerPackets, Distinct DEF ServerReceive
<1>7. CASE p.ty = "PubRec"
  <2>1. Packet("PubRel", p.id) \in FromServer
    BY <1>1, <1>7, ClientPackets, ServerPackets DEF In
  <2>2. Reply(Packet("PubRel", p.id)) /\ unreleased' = unreleased
    BY <1>7 DEF ServerReceive
  <2> QED
    BY <1>5, <2>1, <2>2, Distinct
<1>8. CASE p.ty \in {"PubAck", "PubComp"}
  BY <1>1, <1>2, <1>8 DEF ServerReceive, Taken, OkMeansTaken
<1> QED
  BY <1>4, <1>6, <1>7, <1>8 DEF ServerReceive

\* A new flow starts in the state Sent.
LEMMA PublishTaken ==
  ASSUME IInv, Types, Taken, NEW m \in Out, ClientPublish(m)
  PROVE  Taken'
<1> USE PublishAssumption DEF stream, server
<1>1. /\ UNCHANGED <<got, unreleased, down>> /\ reply'[m] # "idle"
      /\ \A n \in Out : /\ reply'[n] = "idle" => reply[n] = "idle"
                        /\ reply'[n] = "ok" => reply[n] = "ok"
  BY DEF ClientPublish, IInv, Tables
<1>2. sent' = sent \/ sent' = [sent EXCEPT ![IdOf[m]] = Entry("Sent", m)]
  BY DEF ClientPublish
<1>3. \A id \in Ids : sent'[id] \in {sent[id], Entry("Sent", m)}
                        /\ (sent'[id] # sent[id] => id = IdOf[m])
  BY <1>2 DEF IInv, Tables
<1>4. Range(up') \subseteq Range(up) \cup {Publish(IdOf[m], m)}
  <2>1. Range(Append(up, Publish(IdOf[m], m))) = Range(up) \cup {Publish(IdOf[m], m)}
    BY Puts, ClientPackets DEF Types
  <2>2. up' = up \/ up' = Append(up, Publish(IdOf[m], m))
    BY DEF ClientPublish
  <2> QED
    BY <2>1, <2>2
<1>5. \A n \in Out : Publish(IdOf[n], n) \in Range(up') => reply'[n] # "idle"
  BY <1>1, <1>4, Distinct DEF Taken
<1>6. \A id \in Ids : sent'[id] # NoEntry => IdOf[sent'[id].msg] = id
  BY <1>3 DEF Taken, Entry
<1>7. \A n \in Out : sent'[IdOf[n]] = Entry("Released", n) => n \in got
  BY <1>3 DEF Taken, Entry
<1> QED
  BY <1>1, <1>5, <1>6, <1>7 DEF Taken, OkMeansTaken

\* Every step keeps Taken.
LEMMA TakenStep ==
  ASSUME OwnIds, IInv, Types, Taken, Next
  PROVE  Taken'
<1> USE DEF tables, caller, stream, server
<1>0. Range(<<>>) = {}
  BY EmptySeq DEF Range
<1>1. CASE UNCHANGED <<sent, reply, up, down, got, unreleased>>
  BY <1>1 DEF Taken, OkMeansTaken
<1>2. CASE ConnectionLost
  BY <1>0, <1>2 DEF ConnectionLost, Taken, OkMeansTaken
<1>3. CASE Reconnect
  <2>1. Range(down') \subseteq Range(Unsettled)
    BY <1>3, Repetitions, Orders DEF Reconnect
  <2>2. \A q \in Range(Unsettled) : \E x \in In : q \in {Publish(x, x), Packet("PubRel", x)}
    BY DEF Unsettled, Range
  <2>3. \A i : Packet("PubAck", i) \notin Range(down') /\ Packet("PubRec", i) \notin Range(down')
    BY <2>1, <2>2, Distinct
  <2> QED
    BY <1>0, <1>3, <2>3 DEF Reconnect, Taken, OkMeansTaken
<1>4. CASE Restart
  <2>1. \A id \in Ids : sent'[id] = NoEntry
    BY <1>4 DEF Restart
  <2>2. \A m \in Out : IdOf[m] \in Ids /\ Entry("Released", m) # NoEntry
    BY PublishAssumption DEF Entry
  <2>3. \A m \in Out : /\ reply'[m] = "idle" => reply[m] = "idle"
                       /\ reply'[m] = "ok" => reply[m] = "ok"
    BY <1>4 DEF Restart, Resolve
  <2>4. got' = got /\ unreleased' = unreleased /\ Range(up') = {} /\ Range(down') = {}
    BY <1>0, <1>4 DEF Restart
  <2> QED
    BY <2>1, <2>2, <2>3, <2>4 DEF Taken, OkMeansTaken
<1>5. ASSUME NEW x \in In, ServerPublish(x) PROVE Taken'
  <2>1. Range(down') = Range(down) \cup {Publish(x, x)}
    BY <1>5, Puts, ServerPackets DEF ServerPublish, Types
  <2> QED
    BY <1>5, <2>1, Distinct DEF ServerPublish, Taken, OkMeansTaken
<1> QED
  BY <1>1, <1>2, <1>3, <1>4, <1>5, PublishTaken, ReceiveTaken, ServerTaken
  DEF Next, Disconnect, Suspend

\* What the server has taken stays so, whatever is lost or started again.
LEMMA TakenHolds ==
  ASSUME OwnIds
  PROVE  Spec => [](IInv /\ Types /\ Taken)
<1>1. Init => Taken
  <2>1. Range(<<>>) = {}
    BY EmptySeq DEF Range
  <2>2. \A m \in Out : IdOf[m] \in Ids /\ Entry("Released", m) # NoEntry
    BY PublishAssumption DEF Entry
  <2> QED
    BY <2>1, <2>2 DEF Init, Taken, OkMeansTaken
<1>2. IInv /\ Types /\ Taken /\ [Next]_vars => Taken'
  <2>1. Taken /\ UNCHANGED vars => Taken'
    BY DEF vars, tables, caller, stream, server, Taken, OkMeansTaken
  <2> QED
    BY <2>1, TakenStep
<1> QED
  BY <1>1, <1>2, TypesHold, PTL DEF Spec

\* With an identifier for each message, a call of publish succeeds only when
\* the server has the message (client.rs:195, inbound_handlers.rs:143-255),
\* whatever fails, is lost or is started again.
THEOREM OkIsTaken ==
  ASSUME OwnIds
  PROVE  Spec => []OkMeansTaken
<1>1. Taken => OkMeansTaken
  BY DEF Taken
<1> QED
  BY <1>1, TakenHolds, PTL

-----------------------------------------------------------------------------
(* What the subscribers are delivered.                                     *)

\* A PUBLISH on the stream has not been answered; PUBREC, PUBREL and PUBCOMP
\* follow one another; and what was delivered is not on its way again.
Flow(x) ==
  /\ delivered[x] <= 1
  /\ delivered[x] > 0 => x \notin received /\ phase[x] \in {"released", "done"}
  /\ Single(down, Publish(x, x))
  /\ Publish(x, x) \in Range(down) =>
       phase[x] = "published" /\ Packet("PubRec", x) \notin Range(up)
  /\ Packet("PubRel", x) \in Range(down) => phase[x] \in {"released", "done"}
  /\ Packet("PubRec", x) \in Range(up) => phase[x] # "new"
  /\ Packet("PubComp", x) \in Range(up) => phase[x] \in {"released", "done"}

Flows == \A x \in In2 : Flow(x)

\* What a handler does not send or deliver for x leaves its flow alone.
LEMMA OtherFlow ==
  ASSUME NEW x \in In2, Flow(x), delivered'[x] = delivered[x], phase'[x] = phase[x],
         x \in received' => x \in received,
         Range(down') \subseteq Range(down), Single(down', Publish(x, x)),
         \A ty \in {"PubRec", "PubComp"} :
           Packet(ty, x) \in Range(up') => Packet(ty, x) \in Range(up)
  PROVE  Flow(x)'
BY DEF Flow

\* The handlers of PUBLISH and PUBREL move one flow on.
LEMMA ReceiveFlows ==
  ASSUME IInv, Types, Flows, Receive
  PROVE  Flows'
<1> DEFINE p == Head(down)
<1> USE PublishAssumption DEF Flows
<1>1. /\ p \in FromServer /\ p \in Range(down) /\ Range(Tail(down)) \subseteq Range(down)
      /\ down # <<>>
      /\ \A q : Single(down, q) =>
           Single(Tail(down), q) /\ (p = q => q \notin Range(Tail(down)))
  BY Takes DEF Receive, Types
<1>2. phase' = phase
  BY DEF Receive, server
<1>3. ASSUME NEW x \in In2, down' = Tail(down)
      PROVE  /\ Range(down') \subseteq Range(down) /\ Single(down', Publish(x, x))
             /\ p = Publish(x, x) => Publish(x, x) \notin Range(down')
  BY <1>1, <1>3 DEF Flow
<1>4. ASSUME NEW q \in FromClient, TakeAndSend(q)
      PROVE  down' = Tail(down) /\ Range(up') = Range(up) \cup {q}
  BY <1>4, Puts DEF TakeAndSend, Types
<1>5. CASE Take /\ UNCHANGED <<received, delivered>>
  BY <1>2, <1>3, <1>5, OtherFlow DEF Take
<1>6. ASSUME NEW q \in FromClient, TakeAndSend(q), UNCHANGED <<received, delivered>>,
             \A x \in In2 : q # Packet("PubRec", x) /\ q # Packet("PubComp", x)
      PROVE  Flows'
  BY <1>2, <1>3, <1>4, <1>6, OtherFlow
<1>7. CASE p.ty = "Publish" /\ publish_handler(p.msg)
  <2> SUFFICES ASSUME NEW y \in In, y = p.msg, p = Publish(y, y),
                      \/ /\ y \in In1 /\ Deliver(y) /\ UNCHANGED received
                         /\ TakeAndSend(Packet("PubAck", y))
                      \/ /\ y \in In2 /\ received' = received \cup {y}
                         /\ UNCHANGED delivered /\ TakeAndSend(Packet("PubRec", y)),
                      NEW x \in In2
               PROVE  Flow(x)'
    BY <1>1, <1>5, <1>7, ServerPackets DEF publish_handler, Ignore, tables, caller
  <2>1. CASE y \in In1
    <3>1. x # y /\ delivered'[x] = delivered[x] /\ received' = received
      BY <2>1 DEF Deliver, In, Types
    <3>2. TakeAndSend(Packet("PubAck", y)) /\ Packet("PubAck", y) \in FromClient
      BY <2>1, ClientPackets
    <3> QED
      BY <1>2, <1>3, <1>4, <3>1, <3>2, OtherFlow, Distinct
  <2>2. CASE y \in In2
    <3>1. /\ received' = received \cup {y} /\ delivered' = delivered
          /\ TakeAndSend(Packet("PubRec", y)) /\ Packet("PubRec", y) \in FromClient
      BY <2>2, ClientPackets
    <3>2. down' = Tail(down) /\ Range(up') = Range(up) \cup {Packet("PubRec", y)}
      BY <1>4, <3>1
    <3>3. CASE x # y
      BY <1>2, <1>3, <3>1, <3>2, <3>3, OtherFlow, Distinct
    <3>4. CASE x = y
      <4>1. phase[x] = "published" /\ Publish(x, x) \notin Range(down')
        BY <1>1, <1>3, <3>2, <3>4 DEF Flow
      <4>2. ~(delivered[x] > 0)
        BY <4>1 DEF Flow
      <4> QED
        BY <1>2, <1>3, <3>1, <3>2, <4>1, <4>2, Distinct DEF Flow
    <3> QED
      BY <3>3, <3>4
  <2> QED
    BY <2>1, <2>2 DEF In
<1>8. CASE p.ty = "PubRel" /\ pub_rel_handler(p.id)
  <2> SUFFICES ASSUME NEW y \in In2, y = p.id, y \in received, received' = received \ {y},
                      Deliver(y), TakeAndSend(Packet("PubComp", y)), NEW x \in In2
               PROVE  Flow(x)'
    BY <1>5, <1>8 DEF pub_rel_handler, Ignore, tables, caller, Types
  <2>1. p = Packet("PubRel", y)
    BY <1>1, <1>8, ServerPackets
  <2>2. down' = Tail(down) /\ Range(up') = Range(up) \cup {Packet("PubComp", y)}
    BY <1>4, ClientPackets
  <2>3. y \in In /\ x \in In
    BY DEF In
  <2>4. CASE x # y
    <3>1. delivered'[x] = delivered[x]
      BY <2>3, <2>4 DEF Deliver, Types
    <3> QED
      BY <1>2, <1>3, <2>2, <2>4, <3>1, OtherFlow, Distinct
  <2>5. CASE x = y
    <3>1. phase[x] \in {"released", "done"} /\ ~(delivered[x] > 0)
      BY <1>1, <2>1, <2>5 DEF Flow
    <3>2. delivered[x] \in Nat /\ delivered'[x] = delivered[x] + 1
      BY <2>3, <2>5 DEF Deliver, Types
    <3>3. delivered'[x] = 1
      BY <3>1, <3>2
    <3>4. Publish(x, x) \notin Range(down')
      BY <1>3, <2>2, <3>1 DEF Flow
    <3> QED
      BY <1>2, <1>3, <2>2, <2>5, <3>1, <3>3, <3>4, Distinct DEF Flow
  <2> QED
    BY <2>4, <2>5
<1>9. CASE Ignore \/ Panic
  BY <1>5, <1>9 DEF Ignore, Panic, tables, caller
<1>10. CASE p.ty = "PubAck" /\ pub_ack_handler(p.id)
  BY <1>5, <1>9, <1>10 DEF pub_ack_handler
<1>11. CASE p.ty = "PubComp" /\ pub_comp_handler(p.id)
  BY <1>5, <1>9, <1>11 DEF pub_comp_handler
<1>12. CASE p.ty = "PubRec" /\ pub_rec_handler(p.id)
  <2>1. Packet("PubRel", p.id) \in FromClient
    BY <1>1, <1>12, ServerPackets, ClientPackets
  <2> QED
    BY <1>5, <1>6, <1>9, <1>12, <2>1, Distinct DEF pub_rec_handler
<1> QED
  BY <1>7, <1>8, <1>9, <1>10, <1>11, <1>12 DEF Receive

\* The server moves a flow on when the PUBREC or the PUBCOMP comes.
LEMMA ServerFlows ==
  ASSUME Types, Flows, ServerReceive
  PROVE  Flows'
<1> DEFINE p == Head(up)
<1> USE PublishAssumption DEF Flows
<1>1. p \in FromClient /\ p \in Range(up) /\ Range(up') \subseteq Range(up)
  BY Takes DEF ServerReceive, Types
<1>2. received' = received /\ delivered' = delivered
  BY DEF ServerReceive, tables, caller
<1>3. ASSUME NEW q \in FromServer, Reply(q), NEW x \in In2, q # Publish(x, x)
      PROVE  Range(down') = Range(down) \cup {q} /\ Single(down', Publish(x, x))
  BY <1>3, Puts DEF Reply, Types, Flow
<1>4. ASSUME NEW q \in FromServer, Reply(q), phase' = phase,
             \A x \in In : q # Publish(x, x) /\ q # Packet("PubRel", x)
      PROVE  Flows'
  BY <1>1, <1>2, <1>3, <1>4 DEF Flow, In
<1>5. CASE p.ty = "Publish"
  <2>1. p.id \in Ids /\ Packet("PubAck", p.id) \in FromServer /\ Packet("PubRec", p.id) \in FromServer
    BY <1>1, <1>5, ClientPackets, ServerPackets
  <2>2. phase' = phase /\ (Reply(Packet("PubAck", p.id)) \/ Reply(Packet("PubRec", p.id)))
    BY <1>5 DEF ServerReceive
  <2> QED
    BY <1>4, <2>1, <2>2, Distinct
<1>6. CASE p.ty = "PubRel"
  <2>1. Packet("PubComp", p.id) \in FromServer
    BY <1>1, <1>6, ClientPackets, ServerPackets
  <2>2. phase' = phase /\ Reply(Packet("PubComp", p.id))
    BY <1>6 DEF ServerReceive
  <2> QED
    BY <1>4, <2>1, <2>2, Distinct
<1>7. CASE p.ty = "PubRec"
  <2>1. p.id \in In2 /\ p.id \in In /\ p = Packet("PubRec", p.id)
    BY <1>1, <1>7, ClientPackets DEF In
  <2>2. phase' = [phase EXCEPT ![p.id] = "released"] /\ Reply(Packet("PubRel", p.id))
    BY <1>7 DEF ServerReceive
  <2> SUFFICES ASSUME NEW x \in In2 PROVE Flow(x)'
    OBVIOUS
  <2>3. Range(down') = Range(down) \cup {Packet("PubRel", p.id)} /\ Single(down', Publish(x, x))
    BY <1>3, <2>1, <2>2, ServerPackets, Distinct
  <2>4. x \in In /\ phase'[x] = IF x = p.id THEN "released" ELSE phase[x]
    BY <2>1, <2>2 DEF In, Types
  <2>5. x = p.id => Publish(x, x) \notin Range(down)
    BY <1>1, <2>1 DEF Flow
  <2> QED
    BY <1>1, <1>2, <2>3, <2>4, <2>5, Distinct DEF Flow
<1>8. CASE p.ty \in {"PubAck", "PubComp"}
  <2>1. phase' = [phase EXCEPT ![p.id] = "done"] /\ down' = down
    BY <1>8 DEF ServerReceive
  <2> SUFFICES ASSUME NEW x \in In2 PROVE Flow(x)'
    OBVIOUS
  <2>2. x \in In /\ phase'[x] = IF x = p.id THEN "done" ELSE phase[x]
    BY <2>1 DEF In, Types
  <2>3. x = p.id => phase[x] \in {"released", "done"}
    <3>1. CASE p.ty = "PubAck"
      BY <1>1, <3>1, ClientPackets
    <3>2. CASE p.ty = "PubComp"
      BY <1>1, <3>2, ClientPackets DEF Flow
    <3> QED
      BY <1>8, <3>1, <3>2
  <2> QED
    BY <1>1, <1>2, <2>1, <2>2, <2>3 DEF Flow
<1> QED
  BY <1>5, <1>6, <1>7, <1>8 DEF ServerReceive

\* Every step keeps the flows.
LEMMA FlowsStep ==
  ASSUME IInv, Types, Flows, Next
  PROVE  Flows'
<1> USE DEF Flows, tables, caller, stream, server
<1>0. Range(<<>>) = {} /\ \A q : Single(<<>>, q)
  BY EmptySeq DEF Range, Single
<1>1. CASE UNCHANGED <<delivered, received, phase, up, down>>
  BY <1>1 DEF Flow
<1>2. ASSUME NEW m \in Out, ClientPublish(m) PROVE Flows'
  <2>1. Range(Append(up, Publish(IdOf[m], m))) = Range(up) \cup {Publish(IdOf[m], m)}
    BY Puts, ClientPackets DEF Types
  <2>2. Range(up') \subseteq Range(up) \cup {Publish(IdOf[m], m)}
    <3>1. up' = up \/ up' = Append(up, Publish(IdOf[m], m))
      BY <1>2 DEF ClientPublish
    <3> QED
      BY <2>1, <3>1
  <2>3. \A x, ty : ty # "Publish" /\ Packet(ty, x) \in Range(up') => Packet(ty, x) \in Range(up)
    BY <2>2, Distinct
  <2>4. UNCHANGED <<delivered, received, phase, down>>
    BY <1>2 DEF ClientPublish
  <2> HIDE DEF tables, caller, stream, server
  <2> QED
    BY <2>3, <2>4, OtherFlow DEF Flow
<1>3. CASE ConnectionLost
  BY <1>0, <1>3 DEF ConnectionLost, Flow
<1>4. CASE Reconnect
  <2>1. Range(down') \subseteq Range(Unsettled) /\ \A q : Single(down', q)
    BY <1>4, Repetitions, Orders DEF Reconnect
  <2>2. \A x \in In2 : /\ Publish(x, x) \in Range(down') => phase[x] = "published"
                       /\ Packet("PubRel", x) \in Range(down') => phase[x] = "released"
    BY <2>1, Repetitions DEF In
  <2> QED
    BY <1>0, <1>4, <2>1, <2>2 DEF Reconnect, Flow
<1>5. CASE Restart
  BY <1>0, <1>5 DEF Restart, Flow
<1>6. ASSUME NEW y \in In, ServerPublish(y) PROVE Flows'
  <2> SUFFICES ASSUME NEW x \in In2 PROVE Flow(x)'
    OBVIOUS
  <2>1. /\ Range(down') = Range(down) \cup {Publish(y, y)}
        /\ Publish(y, y) # Publish(x, x) \/ Publish(x, x) \notin Range(down)
             => Single(down', Publish(x, x))
    BY <1>6, Puts, ServerPackets DEF ServerPublish, Types, Flow
  <2>2. phase[y] = "new" /\ x \in In /\ phase'[x] = IF x = y THEN "published" ELSE phase[x]
    BY <1>6 DEF ServerPublish, Types, In
  <2>3. x = y => Publish(x, x) \notin Range(down) /\ Packet("PubRec", x) \notin Range(up)
    BY <2>2 DEF Flow
  <2> QED
    BY <1>6, <2>1, <2>2, <2>3, Distinct DEF ServerPublish, Flow
<1> QED
  BY <1>1, <1>2, <1>3, <1>4, <1>5, <1>6, ReceiveFlows, ServerFlows
  DEF Next, Disconnect, Suspend

\* The flows of the server hold for any numbering, faults and restarts.
LEMMA FlowsHold == Spec => [](IInv /\ Types /\ Flows)
<1>1. Init => Flows
  <2>1. Range(<<>>) = {} /\ \A q : Single(<<>>, q)
    BY EmptySeq DEF Range, Single
  <2> QED
    BY <2>1, PublishAssumption DEF Init, Flows, Flow, In
<1>2. IInv /\ Types /\ Flows /\ [Next]_vars => Flows'
  <2>1. Flows /\ UNCHANGED vars => Flows'
    BY DEF vars, tables, caller, stream, server, Flows, Flow
  <2> QED
    BY <2>1, FlowsStep
<1> QED
  BY <1>1, <1>2, TypesHold, PTL DEF Spec

\* A QoS 2 message is delivered once at most (inbound_handlers.rs:124, 200),
\* although the server repeats PUBLISH and PUBREL after each new connection
\* and a new process has forgotten all flows.
THEOREM DeliveredOnce == Spec => []AtMostOnce
<1>1. Flows => AtMostOnce
  BY DEF Flows, Flow, AtMostOnce
<1> QED
  BY <1>1, FlowsHold, PTL

-----------------------------------------------------------------------------
(* Between PUBREC and PUBREL the loop has the message.                     *)

Kept == \A x \in In2 :
  phase[x] \in {"released", "done"} \/ Packet("PubRec", x) \in Range(up) =>
    x \in received \/ delivered[x] > 0

\* A step that sends no PUBREC and takes nothing out of the tables.
LEMMA StaysKept ==
  ASSUME Kept, received \subseteq received',
         \A x \in In2 : /\ delivered[x] > 0 => delivered'[x] > 0
                        /\ phase'[x] \in {"released", "done"} => phase[x] \in {"released", "done"}
                        /\ Packet("PubRec", x) \in Range(up') => Packet("PubRec", x) \in Range(up)
  PROVE  Kept'
BY DEF Kept

\* PUBREC is sent with the message in the table, and the message leaves the
\* table when it is delivered.
LEMMA ReceiveKept ==
  ASSUME IInv, Types, Kept, Receive
  PROVE  Kept'
<1> DEFINE p == Head(down)
<1> USE PublishAssumption
<1>1. p \in FromServer
  BY Takes DEF Receive, Types
<1>2. phase' = phase
  BY DEF Receive, server
<1>3. CASE Take /\ UNCHANGED <<received, delivered>>
  BY <1>2, <1>3, StaysKept DEF Take
<1>4. ASSUME NEW q \in FromClient, TakeAndSend(q)
      PROVE  Range(up') = Range(up) \cup {q}
  BY <1>4, Puts DEF TakeAndSend, Types
<1>5. CASE Ignore \/ Panic
  BY <1>3, <1>5 DEF Ignore, Panic, tables, caller
<1>6. CASE p.ty = "Publish" /\ publish_handler(p.msg)
  <2> SUFFICES ASSUME NEW y \in In,
                      \/ /\ y \in In1 /\ Deliver(y) /\ UNCHANGED received
                         /\ TakeAndSend(Packet("PubAck", y))
                      \/ /\ y \in In2 /\ received' = received \cup {y}
                         /\ UNCHANGED delivered /\ TakeAndSend(Packet("PubRec", y))
               PROVE  Kept'
    BY <1>1, <1>5, <1>6, ServerPackets DEF publish_handler, tables, caller
  <2>1. CASE y \in In1 /\ Deliver(y) /\ UNCHANGED received /\ TakeAndSend(Packet("PubAck", y))
    <3>1. \A x \in In2 : delivered'[x] = delivered[x]
      BY <2>1 DEF Deliver, In, Types
    <3>2. Range(up') = Range(up) \cup {Packet("PubAck", y)}
      BY <1>4, <2>1, ClientPackets
    <3> QED
      BY <1>2, <2>1, <3>1, <3>2, StaysKept, Distinct
  <2>2. CASE /\ y \in In2 /\ received' = received \cup {y} /\ UNCHANGED delivered
             /\ TakeAndSend(Packet("PubRec", y))
    <3>1. Range(up') = Range(up) \cup {Packet("PubRec", y)}
      BY <1>4, <2>2, ClientPackets
    <3> QED
      BY <1>2, <2>2, <3>1, Distinct DEF Kept
  <2> QED
    BY <2>1, <2>2
<1>7. CASE p.ty = "PubRel" /\ pub_rel_handler(p.id)
  <2> SUFFICES ASSUME NEW y \in In2, received' = received \ {y}, Deliver(y),
                      TakeAndSend(Packet("PubComp", y))
               PROVE  Kept'
    BY <1>5, <1>7 DEF pub_rel_handler, Types
  <2>1. Range(up') = Range(up) \cup {Packet("PubComp", y)}
    BY <1>4, ClientPackets
  <2>2. /\ \A x \in In2 \ {y} : delivered'[x] = delivered[x]
        /\ delivered[y] \in Nat /\ delivered'[y] = delivered[y] + 1
    BY DEF Deliver, Types, In
  <2>3. delivered'[y] > 0
    BY <2>2
  <2> QED
    BY <1>2, <2>1, <2>2, <2>3, Distinct DEF Kept
<1>8. CASE p.ty = "PubAck" /\ pub_ack_handler(p.id)
  BY <1>3, <1>5, <1>8 DEF pub_ack_handler
<1>9. CASE p.ty = "PubComp" /\ pub_comp_handler(p.id)
  BY <1>3, <1>5, <1>9 DEF pub_comp_handler
<1>10. CASE p.ty = "PubRec" /\ pub_rec_handler(p.id)
  <2>1. Packet("PubRel", p.id) \in FromClient
    BY <1>1, <1>10, ServerPackets, ClientPackets
  <2>2. ASSUME TakeAndSend(Packet("PubRel", p.id)), UNCHANGED <<received, delivered>>
        PROVE  Kept'
    BY <1>2, <1>4, <2>1, <2>2, StaysKept, Distinct
  <2> QED
    BY <1>3, <1>5, <1>10, <2>2 DEF pub_rec_handler
<1> QED
  BY <1>5, <1>6, <1>7, <1>8, <1>9, <1>10 DEF Receive

\* The server releases what it has a PUBREC for.
LEMMA KeptStep ==
  ASSUME MaxRestarts = 0, IInv, Types, Flows, Kept, Next
  PROVE  Kept'
<1> USE DEF tables, caller, stream, server
<1>0. Range(<<>>) = {}
  BY EmptySeq DEF Range
<1>1. CASE UNCHANGED <<delivered, received, phase, up>>
  BY <1>1 DEF Kept
<1>2. ASSUME NEW m \in Out, ClientPublish(m) PROVE Kept'
  <2>1. Range(Append(up, Publish(IdOf[m], m))) = Range(up) \cup {Publish(IdOf[m], m)}
    BY Puts, ClientPackets DEF Types
  <2>2. Range(up') \subseteq Range(up) \cup {Publish(IdOf[m], m)}
    <3>1. up' = up \/ up' = Append(up, Publish(IdOf[m], m))
      BY <1>2 DEF ClientPublish
    <3> QED
      BY <2>1, <3>1
  <2>3. \A x : Packet("PubRec", x) \in Range(up') => Packet("PubRec", x) \in Range(up)
    BY <2>2, Distinct
  <2>4. UNCHANGED <<delivered, received, phase>>
    BY <1>2 DEF ClientPublish
  <2> QED
    BY <2>3, <2>4, StaysKept
<1>3. CASE ConnectionLost \/ Reconnect
  BY <1>0, <1>3 DEF ConnectionLost, Reconnect, Kept
<1>4. CASE Restart
  BY <1>4 DEF Restart, Types
<1>5. ASSUME NEW y \in In, ServerPublish(y) PROVE Kept'
  BY <1>5, StaysKept DEF ServerPublish, Types, In
<1>6. CASE ServerReceive
  <2> DEFINE p == Head(up)
  <2>1. p \in FromClient /\ p \in Range(up) /\ Range(up') \subseteq Range(up)
    BY <1>6, Takes DEF ServerReceive, Types
  <2>2. received' = received /\ delivered' = delivered
    BY <1>6 DEF ServerReceive
  <2>3. \A x \in In2 : phase'[x] # phase[x] =>
          p = Packet("PubRec", x) \/ phase[x] \in {"released", "done"}
    <3> SUFFICES ASSUME NEW x \in In2, phase'[x] # phase[x], x = p.id,
                        p.ty \in {"PubRec", "PubAck", "PubComp"}
                 PROVE  p = Packet("PubRec", x) \/ phase[x] \in {"released", "done"}
      BY <1>6 DEF ServerReceive, Types, In
    <3>1. p = Packet("PubRec", x) \/ p = Packet("PubComp", x)
      BY <2>1, ClientPackets, PublishAssumption
    <3> QED
      BY <2>1, <3>1 DEF Flows, Flow
  <2> QED
    BY <2>1, <2>2, <2>3 DEF Kept
<1> QED
  BY <1>1, <1>2, <1>3, <1>4, <1>5, <1>6, ReceiveKept DEF Next, Disconnect, Suspend

\* In one process, what the server may release is kept.
LEMMA KeptHolds ==
  ASSUME MaxRestarts = 0
  PROVE  Spec => [](IInv /\ Types /\ Flows /\ Kept)
<1>1. Init => Kept
  <2>1. Range(<<>>) = {}
    BY EmptySeq DEF Range
  <2> QED
    BY <2>1 DEF Init, Kept, In
<1>2. IInv /\ Types /\ Flows /\ Kept /\ [Next]_vars => Kept'
  <2>1. Kept /\ UNCHANGED vars => Kept'
    BY DEF vars, tables, caller, stream, server, Kept
  <2> QED
    BY <2>1, KeptStep
<1> QED
  BY <1>1, <1>2, FlowsHold, PTL DEF Spec

\* Unless the process is started again, a message the server has let go of
\* is in the table or was delivered (inbound_handlers.rs:124-137).
THEOREM NothingIsDropped ==
  ASSUME MaxRestarts = 0
  PROVE  Spec => []ReleasedIsKept
<1>1. Kept => ReleasedIsKept
  BY DEF Kept, ReleasedIsKept
<1> QED
  BY <1>1, KeptHolds, PTL

-----------------------------------------------------------------------------
(* The refinement.                                                         *)

\* The senders of some calls are used for an error, or dropped.
LEMMA CallsFail ==
  ASSUME NEW M \in SUBSET Out, NEW v \in {"lost", "persistence"}, Resolve(M, v),
         UNCHANGED <<got, received, delivered, phase>>
  PROVE  Promise!Fail(M)
BY DEF Resolve, Promise!Fail

\* The sender of a call is used to report success.
LEMMA CallSucceeds ==
  ASSUME IInv, NEW m \in Out, m \in got, Resolve({m}, "ok"),
         UNCHANGED <<got, received, delivered, phase>>
  PROVE  Promise!Succeed(m) \/ UNCHANGED Promise!vars
<1>1. CASE reply[m] = "waiting"
  BY <1>1 DEF Resolve, Promise!Succeed, IInv, Tables
<1>2. CASE reply[m] # "waiting"
  <2>1. reply' = reply
    BY <1>2 DEF Resolve, IInv, Tables
  <2> QED
    BY <2>1 DEF Promise!vars
<1> QED
  BY <1>1, <1>2

\* A packet the loop handles is one step of the promise, or none.
LEMMA ReceiveKeepsPromise ==
  ASSUME IInv, Types, Taken, Flows, Kept, Receive
  PROVE  [Promise!Next]_(Promise!vars)
<1> DEFINE p == Head(down)
<1> USE PublishAssumption
<1>1. p \in FromServer /\ p \in Range(down)
  BY Takes DEF Receive, Types
<1>2. got' = got /\ phase' = phase
  BY DEF Receive, server
<1>3. CASE Ignore
  BY <1>2, <1>3 DEF Ignore, tables, caller, Promise!vars
<1>4. CASE Panic
  BY <1>2, <1>4, CallsFail DEF Panic, tables, Promise!Next
<1>5. ASSUME UNCHANGED <<reply, received>>, \A x \in In2 : delivered'[x] = delivered[x]
      PROVE  UNCHANGED Promise!vars
  BY <1>2, <1>5 DEF Promise!vars
<1>6. CASE p.ty = "Publish" /\ publish_handler(p.msg)
  <2> SUFFICES ASSUME NEW y \in In, p = Publish(y, y),
                      \/ y \in In1 /\ Deliver(y) /\ UNCHANGED <<received, reply>>
                      \/ /\ y \in In2 \ received /\ received' = received \cup {y}
                         /\ UNCHANGED <<delivered, reply>>
               PROVE  [Promise!Next]_(Promise!vars)
    BY <1>1, <1>3, <1>6, ServerPackets DEF publish_handler, tables, caller
  <2>1. CASE y \in In1 /\ Deliver(y) /\ UNCHANGED <<received, reply>>
    <3>1. \A x \in In2 : delivered'[x] = delivered[x]
      BY <2>1 DEF Deliver, In, Types
    <3> QED
      BY <1>5, <2>1, <3>1
  <2>2. CASE /\ y \in In2 \ received /\ received' = received \cup {y}
             /\ UNCHANGED <<delivered, reply>>
    <3>1. phase[y] = "published"
      BY <1>1, <2>2 DEF Flows, Flow
    <3>2. delivered[y] = 0
      BY <2>2, <3>1 DEF Flows, Flow, Types, In
    <3>3. Promise!Hold(y)
      BY <1>2, <2>2, <3>1, <3>2 DEF Promise!Hold
    <3> QED
      BY <2>2, <3>3 DEF Promise!Next
  <2> QED
    BY <2>1, <2>2
<1>7. CASE p.ty = "PubRel" /\ pub_rel_handler(p.id)
  <2> SUFFICES ASSUME NEW y \in In2, p = Packet("PubRel", y), y \in received,
                      received' = received \ {y}, Deliver(y), UNCHANGED reply
               PROVE  [Promise!Next]_(Promise!vars)
    BY <1>1, <1>3, <1>7, ServerPackets DEF pub_rel_handler, Types
  <2>1. phase[y] \in {"released", "done"} /\ ~(delivered[y] > 0)
    BY <1>1 DEF Flows, Flow
  <2>2. y \in In /\ delivered[y] = 0 /\ delivered' = [delivered EXCEPT ![y] = 1]
    <3>1. y \in In /\ delivered[y] \in Nat
      BY DEF Types, In
    <3>2. delivered[y] = 0 /\ delivered[y] + 1 = 1
      BY <2>1, <3>1
    <3> QED
      BY <3>1, <3>2 DEF Deliver
  <2>3. [x \in In2 |-> delivered'[x]] = [[x \in In2 |-> delivered[x]] EXCEPT ![y] = 1]
    BY <2>2 DEF Types, In
  <2>4. Promise!PassOn(y)
    BY <1>2, <2>1, <2>2, <2>3 DEF Promise!PassOn
  <2> QED
    BY <2>4 DEF Promise!Next
<1>8. ASSUME NEW m \in Out, NEW v \in {"ok", "lost", "persistence"}, v = "ok" => m \in got,
             Resolve({m}, v), UNCHANGED <<received, delivered>>
      PROVE  [Promise!Next]_(Promise!vars)
  <2>1. CASE v = "ok"
    BY <1>2, <1>8, <2>1, CallSucceeds DEF Promise!Next
  <2>2. CASE v # "ok"
    <3>1. Promise!Fail({m})
      BY <1>2, <1>8, <2>2, CallsFail
    <3> QED
      BY <3>1 DEF Promise!Next
  <2> QED
    BY <2>1, <2>2
<1>9. \A id \in Ids : sent[id] # NoEntry =>
        sent[id].msg \in Out /\ IdOf[sent[id].msg] = id
  BY DEF Taken, IInv, Tables, Entries
<1>10. CASE p.ty = "PubAck" /\ pub_ack_handler(p.id)
  <2> SUFFICES ASSUME NEW id \in Ids, id = p.id, sent[id] # NoEntry,
                      UNCHANGED <<received, delivered>>,
                      \/ Resolve({sent[id].msg}, "ok")
                      \/ Resolve({sent[id].msg}, "persistence")
               PROVE  [Promise!Next]_(Promise!vars)
    BY <1>3, <1>4, <1>10 DEF pub_ack_handler, InState, Tracked
  <2>1. p = Packet("PubAck", id)
    BY <1>1, <1>10, ServerPackets
  <2>2. sent[id].msg \in got
    BY <1>1, <1>9, <2>1 DEF Taken
  <2> QED
    BY <1>8, <1>9, <2>2
<1>11. CASE p.ty = "PubComp" /\ pub_comp_handler(p.id)
  <2> SUFFICES ASSUME NEW id \in Ids, sent[id] # NoEntry, sent[id].st = "Released",
                      UNCHANGED <<received, delivered>>,
                      \/ Resolve({sent[id].msg}, "ok")
                      \/ Resolve({sent[id].msg}, "persistence")
               PROVE  [Promise!Next]_(Promise!vars)
    BY <1>3, <1>4, <1>11 DEF pub_comp_handler, InState, Tracked
  <2>1. sent[id] = Entry("Released", sent[id].msg)
    BY DEF IInv, Tables, Entries, Entry
  <2>2. sent[id].msg \in got
    BY <1>9, <2>1 DEF Taken
  <2> QED
    BY <1>8, <1>9, <2>2
<1>12. CASE p.ty = "PubRec" /\ pub_rec_handler(p.id)
  <2> SUFFICES ASSUME NEW id \in Ids, sent[id] # NoEntry, UNCHANGED <<received, delivered>>,
                      \/ UNCHANGED reply
                      \/ Resolve({sent[id].msg}, "lost")
                      \/ Resolve({sent[id].msg}, "persistence")
               PROVE  [Promise!Next]_(Promise!vars)
    BY <1>3, <1>4, <1>12 DEF pub_rec_handler, InState, Tracked
  <2> QED
    BY <1>5, <1>8, <1>9
<1> QED
  BY <1>3, <1>6, <1>7, <1>10, <1>11, <1>12 DEF Receive

\* What the server takes and releases are steps of the promise.
LEMMA ServerKeepsPromise ==
  ASSUME Types, Taken, Flows, Kept, ServerReceive
  PROVE  [Promise!Next]_(Promise!vars)
<1> DEFINE p == Head(up)
<1> USE PublishAssumption
<1>1. p \in FromClient /\ p \in Range(up)
  BY Takes DEF ServerReceive, Types
<1>2. UNCHANGED <<reply, received, delivered>>
  BY DEF ServerReceive, tables, caller
<1>3. CASE p.ty = "Publish"
  <2> DEFINE n == p.msg
  <2>1. n \in Out /\ p = Publish(IdOf[n], n) /\ phase' = phase /\ got' \in {got, got \cup {n}}
    BY <1>1, <1>3, ClientPackets DEF ServerReceive
  <2>2. reply[n] # "idle"
    BY <1>1, <2>1 DEF Taken
  <2>3. Promise!TakeOver(n) \/ UNCHANGED Promise!vars
    BY <1>2, <2>1, <2>2 DEF Promise!TakeOver, Promise!vars
  <2> QED
    BY <2>1, <2>3 DEF Promise!Next
<1>4. CASE p.ty = "PubRel"
  BY <1>2, <1>4 DEF ServerReceive, Promise!vars
<1>5. CASE p.ty = "PubRec"
  <2>1. PICK y \in In2 : y \in In /\ y = p.id /\ p = Packet("PubRec", y)
    BY <1>1, <1>5, ClientPackets DEF In
  <2>2. phase' = [phase EXCEPT ![y] = "released"] /\ got' = got
    BY <1>5, <2>1 DEF ServerReceive
  <2>3. {x \in In2 : phase'[x] \in {"released", "done"}}
          = {x \in In2 : phase[x] \in {"released", "done"}} \cup {y}
    BY <2>1, <2>2 DEF Types, In
  <2>4. y \in received \/ delivered[y] > 0
    BY <1>1, <2>1 DEF Kept
  <2>5. Promise!Release(y)
    BY <1>2, <2>1, <2>2, <2>3, <2>4 DEF Promise!Release
  <2> QED
    BY <2>5 DEF Promise!Next
<1>6. CASE p.ty \in {"PubAck", "PubComp"}
  <2>1. phase' = [phase EXCEPT ![p.id] = "done"] /\ got' = got
    BY <1>6 DEF ServerReceive
  <2>2. p.id \in In2 => phase[p.id] \in {"released", "done"}
    <3>1. CASE p.ty = "PubAck"
      BY <1>1, <3>1, ClientPackets
    <3>2. CASE p.ty = "PubComp"
      BY <1>1, <3>2, ClientPackets DEF Flows, Flow
    <3> QED
      BY <1>6, <3>1, <3>2
  <2>3. {x \in In2 : phase'[x] \in {"released", "done"}}
          = {x \in In2 : phase[x] \in {"released", "done"}}
    BY <2>1, <2>2 DEF Types, In
  <2> QED
    BY <1>2, <2>1, <2>3 DEF Promise!vars
<1> QED
  BY <1>3, <1>4, <1>5, <1>6 DEF ServerReceive

\* With an identifier for each message the flows implement module Delivery,
\* in one process and under all faults of the store: the calls of publish are
\* answered for what the server took, and QoS 2 messages of the server are
\* held until they are passed on, once.
THEOREM PromisesAreKept ==
  ASSUME OwnIds, MaxRestarts = 0
  PROVE  Spec => KeepsPromises
<1>1. Init => Promise!Init
  BY PublishAssumption DEF Init, Promise!Init, In
<1>2. ASSUME IInv, Types, Taken, Flows, Kept, [Next]_vars
      PROVE  [Promise!Next]_(Promise!vars)
  <2> USE <1>2 DEF tables, caller, stream, server
  <2>1. CASE UNCHANGED <<reply, got, received, delivered, phase>>
    BY <2>1 DEF Promise!vars
  <2>2. ASSUME NEW m \in Out, ClientPublish(m) PROVE [Promise!Next]_(Promise!vars)
    <3>1. \A n \in Out \ {m} : Tracked(IdOf[m]) => sent[IdOf[m]].msg # n
      BY PublishAssumption DEF Taken, OwnIds, Tracked, IInv, Tables, Entries
    <3>2. /\ reply[m] = "idle"
          /\ \E v \in {"waiting", "loopError", "persistence"} :
               reply' = [reply EXCEPT ![m] = v]
      BY <2>2, <3>1, PublishAssumption DEF ClientPublish, IInv, Tables
    <3>3. Promise!Call(m)
      BY <2>2, <3>2 DEF ClientPublish, Promise!Call, IInv, Tables
    <3> QED
      BY <3>3 DEF Promise!Next
  <2>3. CASE Restart
    BY <2>3 DEF Restart, Types
  <2>4. ASSUME NEW y \in In, ServerPublish(y) PROVE UNCHANGED Promise!vars
    <3>1. {x \in In2 : phase'[x] \in {"released", "done"}}
            = {x \in In2 : phase[x] \in {"released", "done"}}
      BY <2>4 DEF ServerPublish, Types, In
    <3> QED
      BY <2>4, <3>1 DEF ServerPublish, Promise!vars
  <2> QED
    BY <2>1, <2>2, <2>3, <2>4, ReceiveKeepsPromise, ServerKeepsPromise
    DEF Next, Disconnect, Suspend, ConnectionLost, Reconnect, vars
<1> QED
  BY <1>1, <1>2, TakenHolds, KeptHolds, PTL DEF Spec, KeepsPromises, Promise!Spec

-----------------------------------------------------------------------------
(* What is left in the store.                                              *)

\* The identifier of a flow is that of its message, so that no flow of
\* another message is overwritten.
Tidy ==
  /\ \A id \in Ids : sent[id] # NoEntry => IdOf[sent[id].msg] = id
  /\ NoOrphans

\* The other flows and their packets stay as they are.
LEMMA FlowLeaves ==
  ASSUME IInv, Tidy, NEW id \in Ids, Forget(id), store' = store \ {Persisted(sent[id])}
  PROVE  Tidy'
<1>1. \A i \in Ids : sent'[i] = IF i = id THEN NoEntry ELSE sent[i]
  BY DEF Forget, IInv, Tables
<1>2. \A i \in Ids : sent'[i] # NoEntry => IdOf[sent'[i].msg] = i
  BY <1>1 DEF Tidy
<1>3. ASSUME NEW q \in store' PROVE \E i \in Ids : Tracked(i)' /\ q = Persisted(sent'[i])
  <2>1. PICK i \in Ids : Tracked(i) /\ q = Persisted(sent[i])
    BY <1>3 DEF Tidy, NoOrphans
  <2>2. i # id
    BY <2>1
  <2> QED
    BY <1>1, <2>1, <2>2 DEF Tracked
<1> QED
  BY <1>2, <1>3 DEF Tidy, NoOrphans

\* PUBREC: the packet of the second state takes the place of the first.
LEMMA FlowGoesOn ==
  ASSUME IInv, Tidy, NEW id \in Ids, sent[id] # NoEntry,
         NEW e, e = Entry("Released", sent[id].msg),
         sent' = [sent EXCEPT ![id] = e],
         store' = (store \ {Persisted(sent[id])}) \cup {Persisted(e)}
  PROVE  Tidy'
<1>1. \A i \in Ids : sent'[i] = IF i = id THEN e ELSE sent[i]
  BY DEF IInv, Tables
<1>2. e # NoEntry /\ e.msg = sent[id].msg
  BY PublishAssumption DEF Entry, IInv, Tables, Entries
<1>3. \A i \in Ids : sent'[i] # NoEntry => IdOf[sent'[i].msg] = i
  BY <1>1, <1>2 DEF Tidy
<1>4. ASSUME NEW q \in store' PROVE \E i \in Ids : Tracked(i)' /\ q = Persisted(sent'[i])
  <2>1. CASE q = Persisted(e)
    BY <1>1, <1>2, <2>1 DEF Tracked
  <2>2. CASE q \in store /\ q # Persisted(sent[id])
    <3>1. PICK i \in Ids : Tracked(i) /\ q = Persisted(sent[i])
      BY <2>2 DEF Tidy, NoOrphans
    <3>2. i # id
      BY <2>2, <3>1
    <3> QED
      BY <1>1, <3>1, <3>2 DEF Tracked
  <2> QED
    BY <2>1, <2>2
<1> QED
  BY <1>3, <1>4 DEF Tidy, NoOrphans

\* A new flow starts where there was none: a call is made once.
LEMMA FlowStarts ==
  ASSUME OwnIds, IInv, Tidy, NEW m \in Out, ClientPublish(m)
  PROVE  Tidy'
<1>1. CASE UNCHANGED <<sent, store>>
  BY <1>1 DEF Tidy, NoOrphans, Tracked
<1>2. CASE /\ store' = store \cup {<<"Publish", m>>}
           /\ sent' = [sent EXCEPT ![IdOf[m]] = Entry("Sent", m)]
  <2> DEFINE e == Entry("Sent", m)
  <2>1. IdOf[m] \in Ids
    BY PublishAssumption
  <2>2. \A i \in Ids : sent'[i] = IF i = IdOf[m] THEN e ELSE sent[i]
    BY <1>2 DEF IInv, Tables
  <2>3. e # NoEntry /\ e.msg = m /\ Persisted(e) = <<"Publish", m>>
    BY PublishAssumption DEF Entry, Persisted
  <2>4. sent[IdOf[m]] = NoEntry
    <3>1. reply[m] = "idle"
      BY DEF ClientPublish
    <3>2. ASSUME sent[IdOf[m]] # NoEntry PROVE FALSE
      <4>1. sent[IdOf[m]].msg \in Out /\ IdOf[sent[IdOf[m]].msg] = IdOf[m]
        BY <2>1, <3>2 DEF Tidy, IInv, Tables, Entries
      <4>2. sent[IdOf[m]].msg = m
        BY <4>1 DEF OwnIds
      <4> QED
        BY <2>1, <3>1, <3>2, <4>2 DEF IInv, FlowsAreStarted, Tracked
    <3> QED
      BY <3>2
  <2>5. \A i \in Ids : sent'[i] # NoEntry => IdOf[sent'[i].msg] = i
    BY <2>2, <2>3 DEF Tidy
  <2>6. ASSUME NEW q \in store' PROVE \E i \in Ids : Tracked(i)' /\ q = Persisted(sent'[i])
    <3>1. CASE q = <<"Publish", m>>
      BY <2>1, <2>2, <2>3, <3>1 DEF Tracked
    <3>2. CASE q \in store
      <4>1. PICK i \in Ids : Tracked(i) /\ q = Persisted(sent[i])
        BY <3>2 DEF Tidy, NoOrphans
      <4>2. i # IdOf[m]
        BY <2>4, <4>1 DEF Tracked
      <4> QED
        BY <2>2, <4>1, <4>2 DEF Tracked
    <3> QED
      BY <1>2, <3>1, <3>2
  <2> QED
    BY <2>5, <2>6 DEF Tidy, NoOrphans
<1> QED
  BY <1>1, <1>2 DEF ClientPublish

\* With a store that works the handlers take each packet out again.
LEMMA ReceiveTidy ==
  ASSUME "io" \notin Faults, IInv, Tidy, Receive
  PROVE  Tidy'
<1> DEFINE p == Head(down)
<1>1. CASE UNCHANGED <<sent, store>>
  BY <1>1 DEF Tidy, NoOrphans, Tracked
<1>2. CASE Ignore \/ Panic \/ publish_handler(p.msg) \/ pub_rel_handler(p.id)
  BY <1>1, <1>2 DEF Ignore, Panic, publish_handler, pub_rel_handler, tables, caller
<1>3. CASE pub_ack_handler(p.id)
  BY <1>2, <1>3, FlowLeaves DEF pub_ack_handler, InState, Tracked, IoFails
<1>4. CASE pub_comp_handler(p.id)
  BY <1>2, <1>4, FlowLeaves DEF pub_comp_handler, InState, Tracked, IoFails
<1>5. CASE pub_rec_handler(p.id)
  BY <1>2, <1>5, FlowGoesOn DEF pub_rec_handler, InState, Tracked, IoFails
<1> QED
  BY <1>2, <1>3, <1>4, <1>5 DEF Receive

\* With an identifier for each message, a store that works and one process,
\* no flow leaves a packet behind: the store holds what is in flight and
\* nothing else (inbound_handlers.rs:152-160, 178-192, 238-246).
THEOREM NothingIsLeft ==
  ASSUME OwnIds, "io" \notin Faults, MaxRestarts = 0
  PROVE  Spec => []NoOrphans
<1>1. Init => Tidy
  BY DEF Init, Tidy, NoOrphans
<1>2. IInv /\ Types /\ Tidy /\ [Next]_vars => Tidy'
  <2> SUFFICES ASSUME IInv, Types, Tidy, [Next]_vars PROVE Tidy'
    OBVIOUS
  <2>1. CASE UNCHANGED <<sent, store>>
    BY <2>1 DEF Tidy, NoOrphans, Tracked
  <2>2. ~Restart
    BY DEF Restart, Types
  <2> QED
    BY <2>1, <2>2, FlowStarts, ReceiveTidy
    DEF Next, Disconnect, Suspend, ConnectionLost, Reconnect, ServerPublish, ServerReceive,
        vars, tables
<1>3. Tidy => NoOrphans
  BY DEF Tidy
<1> QED
  BY <1>1, <1>2, <1>3, TypesHold, PTL DEF Spec

-----------------------------------------------------------------------------
(* The handlers meet the state they expect.                                *)

\* Each flow has one packet on the stream at most that moves it on, and that
\* packet belongs to the state the loop has the flow in.
Turn(m) ==
  /\ Single(up, Publish(IdOf[m], m)) /\ Single(down, Packet("PubRec", IdOf[m]))
  /\ Publish(IdOf[m], m) \in Range(up) => Packet("PubRec", IdOf[m]) \notin Range(down)
  /\ Packet("PubAck", IdOf[m]) \in Range(down) => m \in Out1
  /\ Packet("PubRec", IdOf[m]) \in Range(down) => m \in Out2
  /\ sent[IdOf[m]] = Entry("Released", m) =>
       /\ m \in Out2
       /\ Publish(IdOf[m], m) \notin Range(up)
       /\ Packet("PubRec", IdOf[m]) \notin Range(down)
  /\ sent[IdOf[m]] = Entry("Sent", m) =>
       /\ Packet("PubRel", IdOf[m]) \notin Range(up)
       /\ Packet("PubComp", IdOf[m]) \notin Range(down)
  /\ reply[m] = "idle" =>
       /\ Publish(IdOf[m], m) \notin Range(up) /\ Packet("PubRel", IdOf[m]) \notin Range(up)
       /\ \A ty \in {"PubAck", "PubRec", "PubComp"} : Packet(ty, IdOf[m]) \notin Range(down)

Turns == \A m \in Out : Turn(m)

\* A step that takes packets away and ends flows.
LEMMA TurnStays ==
  ASSUME NEW m \in Out, Turn(m),
         Single(up', Publish(IdOf[m], m)), Single(down', Packet("PubRec", IdOf[m])),
         \A q \in {Publish(IdOf[m], m), Packet("PubRel", IdOf[m])} :
           q \in Range(up') => q \in Range(up),
         \A ty \in {"PubAck", "PubRec", "PubComp"} :
           Packet(ty, IdOf[m]) \in Range(down') => Packet(ty, IdOf[m]) \in Range(down),
         sent'[IdOf[m]] \in {sent[IdOf[m]], NoEntry},
         reply'[m] = "idle" => reply[m] = "idle"
  PROVE  Turn(m)'
<1>1. Entry("Released", m) # NoEntry /\ Entry("Sent", m) # NoEntry
  BY PublishAssumption DEF Entry
<1> QED
  BY <1>1 DEF Turn

\* The state of a flow is the one its acknowledgement is for: no handler panics.
LEMMA ReceiveTurns ==
  ASSUME OwnIds, IInv, Types, Taken, Turns, Receive
  PROVE  Turns' /\ (status # "Crashed" => status' # "Crashed")
<1> DEFINE p == Head(down)
<1> USE PublishAssumption
<1>1. /\ p \in FromServer /\ p \in Range(down) /\ Range(Tail(down)) \subseteq Range(down)
      /\ \A q : Single(down, q) =>
           Single(Tail(down), q) /\ (p = q => q \notin Range(Tail(down)))
  BY Takes DEF Receive, Types
<1>2. ASSUME NEW m \in Out, down' = Tail(down)
      PROVE  Single(down', Packet("PubRec", IdOf[m])) /\ Range(down') \subseteq Range(down)
  BY <1>1, <1>2 DEF Turns, Turn
<1>3. ASSUME Take, \A id \in Ids : sent'[id] \in {sent[id], NoEntry},
             \A m \in Out : reply'[m] = "idle" => reply[m] = "idle"
      PROVE  Turns'
  <2> SUFFICES ASSUME NEW m \in Out PROVE Turn(m)'
    BY DEF Turns
  <2>1. up' = up /\ down' = Tail(down) /\ IdOf[m] \in Ids
    BY <1>3 DEF Take
  <2>2. Single(up', Publish(IdOf[m], m)) /\ Turn(m)
    BY <2>1 DEF Turns, Turn
  <2> QED
    BY <1>2, <1>3, <2>1, <2>2, TurnStays
<1>4. ASSUME NEW ty \in {"PubAck", "PubRec", "PubComp"}, NEW x, Packet(ty, x) \in FromClient,
             TakeAndSend(Packet(ty, x)), UNCHANGED <<sent, reply>>
      PROVE  Turns'
  <2> SUFFICES ASSUME NEW m \in Out PROVE Turn(m)'
    BY DEF Turns
  <2>1. /\ down' = Tail(down) /\ Range(up') = Range(up) \cup {Packet(ty, x)}
        /\ up' = Append(up, Packet(ty, x)) /\ IdOf[m] \in Ids
    BY <1>4, Puts DEF TakeAndSend, Types
  <2>2. Packet(ty, x) # Publish(IdOf[m], m) /\ Packet(ty, x) # Packet("PubRel", IdOf[m])
    BY Distinct
  <2>3. Turn(m) /\ Single(up, Publish(IdOf[m], m))
    BY DEF Turns, Turn
  <2>4. Single(up', Publish(IdOf[m], m))
    BY <1>4, <2>1, <2>2, <2>3, Puts DEF Types
  <2> QED
    BY <1>2, <1>4, <2>1, <2>2, <2>3, <2>4, TurnStays
<1>5. CASE Ignore
  BY <1>3, <1>5 DEF Ignore, tables, caller
<1>6. CASE publish_handler(p.msg)
  <2> SUFFICES ASSUME NEW x, \/ x \in In1 /\ TakeAndSend(Packet("PubAck", x))
                             \/ x \in In2 /\ TakeAndSend(Packet("PubRec", x)),
                      UNCHANGED <<sent, reply, status>>
               PROVE  Turns' /\ status' = status
    BY <1>5, <1>6 DEF publish_handler, tables, caller, Ignore
  <2> QED
    BY <1>4, ClientPackets
<1>7. CASE pub_rel_handler(p.id)
  BY <1>4, <1>5, <1>7, ClientPackets DEF pub_rel_handler, Types, Ignore
<1>8. ASSUME NEW id \in Ids, sent[id] # NoEntry
      PROVE  /\ sent[id].msg \in Out /\ IdOf[sent[id].msg] = id
             /\ sent[id] = Entry(sent[id].st, sent[id].msg)
             /\ reply[sent[id].msg] # "idle"
             /\ Turn(sent[id].msg)
  BY <1>8 DEF Taken, IInv, Tables, FlowsAreStarted, Tracked, Entries, Entry, Turns
<1>9. ASSUME NEW id \in Ids, NEW v, v # "idle", Take, Forget(id), Resolve({sent[id].msg}, v)
      PROVE  Turns'
  BY <1>3, <1>9 DEF Forget, Resolve, IInv, Tables
<1>10. CASE p.ty = "PubAck" /\ pub_ack_handler(p.id)
  <2>1. p.id \in Ids /\ p = Packet("PubAck", p.id)
    BY <1>1, <1>10, ServerPackets
  <2>2. ~InState(p.id, "Released")
    <3> SUFFICES ASSUME InState(p.id, "Released") PROVE FALSE
      OBVIOUS
    <3> DEFINE m == sent[p.id].msg
    <3>1. /\ m \in Out /\ IdOf[m] = p.id /\ sent[IdOf[m]] = Entry("Released", m) /\ Turn(m)
      BY <2>1, <1>8 DEF InState, Tracked
    <3>2. Packet("PubAck", IdOf[m]) \in Range(down)
      BY <1>1, <2>1, <3>1
    <3> HIDE DEF m
    <3>3. m \in Out1 /\ m \in Out2
      BY <3>1, <3>2 DEF Turn
    <3> QED
      BY <3>3
  <2> QED
    BY <1>5, <1>9, <1>10, <2>1, <2>2 DEF pub_ack_handler, Ignore
<1>11. CASE p.ty = "PubComp" /\ pub_comp_handler(p.id)
  <2>1. p.id \in Ids /\ p = Packet("PubComp", p.id)
    BY <1>1, <1>11, ServerPackets
  <2>2. ~InState(p.id, "Sent")
    <3> SUFFICES ASSUME InState(p.id, "Sent") PROVE FALSE
      OBVIOUS
    <3> DEFINE m == sent[p.id].msg
    <3>1. /\ m \in Out /\ IdOf[m] = p.id /\ sent[IdOf[m]] = Entry("Sent", m) /\ Turn(m)
      BY <2>1, <1>8 DEF InState, Tracked
    <3>2. Packet("PubComp", IdOf[m]) \in Range(down)
      BY <1>1, <2>1, <3>1
    <3> HIDE DEF m
    <3> QED
      BY <3>1, <3>2 DEF Turn
  <2> QED
    BY <1>5, <1>9, <1>11, <2>1, <2>2 DEF pub_comp_handler, Ignore
<1>12. CASE p.ty = "PubRec" /\ pub_rec_handler(p.id)
  <2>1. p.id \in Ids /\ p = Packet("PubRec", p.id)
    BY <1>1, <1>12, ServerPackets
  <2>2. ~InState(p.id, "Released")
    <3> SUFFICES ASSUME InState(p.id, "Released") PROVE FALSE
      OBVIOUS
    <3> DEFINE m == sent[p.id].msg
    <3>1. /\ m \in Out /\ IdOf[m] = p.id /\ sent[IdOf[m]] = Entry("Released", m) /\ Turn(m)
      BY <2>1, <1>8 DEF InState, Tracked
    <3>2. Packet("PubRec", IdOf[m]) \in Range(down)
      BY <1>1, <2>1, <3>1
    <3> HIDE DEF m
    <3> QED
      BY <3>1, <3>2 DEF Turn
  <2> SUFFICES ASSUME NEW id \in Ids, id = p.id, sent[id] # NoEntry, sent[id].st = "Sent",
                      UNCHANGED status,
                      sent' = [sent EXCEPT ![id] = Entry("Released", sent[id].msg)],
                      TakeAndSend(Packet("PubRel", id)), UNCHANGED reply
               PROVE  Turns'
    BY <1>5, <1>9, <1>12, <2>1, <2>2 DEF pub_rec_handler, InState, Tracked, Ignore
  <2>3. PICK n \in Out : n = sent[id].msg /\ IdOf[n] = id /\ Turn(n) /\ reply[n] # "idle"
    BY <1>8
  <2>4. p = Packet("PubRec", IdOf[n]) /\ Packet("PubRec", IdOf[n]) \in Range(down)
    BY <1>1, <2>1, <2>3
  <2>5. \A j \in Ids : sent'[j] = IF j = id THEN Entry("Released", n) ELSE sent[j]
    BY <2>3 DEF IInv, Tables
  <2>6. /\ down' = Tail(down) /\ up' = Append(up, Packet("PubRel", id))
        /\ Range(up') = Range(up) \cup {Packet("PubRel", id)}
    BY Puts, ClientPackets DEF TakeAndSend, Types
  <2>7. ASSUME NEW m \in Out PROVE Single(up', Publish(IdOf[m], m)) /\ IdOf[m] \in Ids
    BY <2>6, Puts, ClientPackets, Distinct DEF Turns, Turn, Types
  <2>8. ASSUME NEW m \in Out, m # n PROVE Turn(m)'
    <3>1. IdOf[m] # id /\ IdOf[m] \in Ids
      BY <2>3, <2>7, <2>8 DEF OwnIds
    <3>2. Turn(m) /\ sent'[IdOf[m]] = sent[IdOf[m]]
      BY <2>5, <3>1 DEF Turns
    <3>3. \A q \in {Publish(IdOf[m], m), Packet("PubRel", IdOf[m])} :
            q \in Range(up') => q \in Range(up)
      BY <2>6, <3>1, Distinct
    <3> QED
      BY <1>2, <2>6, <2>7, <3>2, <3>3, TurnStays
  <2>9. Turn(n)'
    <3>1. /\ Packet("PubRec", IdOf[n]) \notin Range(down')
          /\ Publish(IdOf[n], n) \notin Range(up) /\ n \in Out2
          /\ Packet("PubAck", IdOf[n]) \notin Range(down)
      BY <1>1, <2>3, <2>4, <2>6 DEF Turn
    <3>2. Publish(IdOf[n], n) \notin Range(up')
      BY <2>6, <3>1, Distinct
    <3>3. sent'[IdOf[n]] = Entry("Released", n) /\ Entry("Released", n) # Entry("Sent", n)
      BY <2>3, <2>5 DEF Entry
    <3> QED
      BY <1>2, <2>3, <2>6, <2>7, <3>1, <3>2, <3>3 DEF Turn
  <2> QED
    BY <2>8, <2>9 DEF Turns
<1>13. status' = status \/ Panic
  BY DEF Receive, Ignore, publish_handler, pub_ack_handler, pub_rec_handler, pub_rel_handler,
         pub_comp_handler, tables, caller
<1> QED
  BY <1>5, <1>6, <1>7, <1>10, <1>11, <1>12 DEF Receive

\* The server answers each packet once, with the packet the flow waits for.
LEMMA ServerTurns ==
  ASSUME OwnIds, Types, Turns, ServerReceive
  PROVE  Turns'
<1> DEFINE p == Head(up)
<1> USE PublishAssumption
<1>1. /\ p \in FromClient /\ p \in Range(up) /\ Range(up') \subseteq Range(up)
      /\ \A q : Single(up, q) => Single(up', q) /\ (p = q => q \notin Range(up'))
  BY Takes DEF ServerReceive, Types
<1>2. UNCHANGED <<sent, reply>>
  BY DEF ServerReceive, tables, caller
<1>3. ASSUME NEW q \in FromServer, Reply(q)
      PROVE  /\ Range(down') = Range(down) \cup {q}
             /\ \A r : Single(down, r) /\ (q # r \/ r \notin Range(down)) => Single(down', r)
  BY <1>3, Puts DEF Reply, Types
<1>4. ASSUME NEW m \in Out,
             \/ UNCHANGED down
             \/ \E q \in FromServer :
                  /\ Reply(q)
                  /\ \A ty \in {"PubAck", "PubRec", "PubComp"} : q # Packet(ty, IdOf[m])
      PROVE  Turn(m)'
  <2>1. Turn(m) /\ IdOf[m] \in Ids
    BY DEF Turns
  <2>2. Single(up', Publish(IdOf[m], m)) /\ Single(down, Packet("PubRec", IdOf[m]))
    BY <1>1, <2>1 DEF Turn
  <2>3. /\ Single(down', Packet("PubRec", IdOf[m]))
        /\ \A ty \in {"PubAck", "PubRec", "PubComp"} :
             Packet(ty, IdOf[m]) \in Range(down') => Packet(ty, IdOf[m]) \in Range(down)
    BY <1>3, <1>4, <2>2
  <2> QED
    BY <1>1, <1>2, <2>1, <2>2, <2>3, TurnStays
<1>5. CASE p.ty = "Publish"
  <2>1. PICK n \in Out : n = p.msg /\ p = Publish(IdOf[n], n) /\ p.id = IdOf[n] /\ IdOf[n] \in Ids
    BY <1>1, <1>5, ClientPackets
  <2>2. \/ n \in Out1 /\ Reply(Packet("PubAck", IdOf[n]))
        \/ n \in Out2 /\ Reply(Packet("PubRec", IdOf[n]))
    BY <1>5, <2>1 DEF ServerReceive
  <2>3. PICK ty \in {"PubAck", "PubRec"} :
          /\ Reply(Packet(ty, IdOf[n])) /\ Packet(ty, IdOf[n]) \in FromServer
          /\ n \in IF ty = "PubAck" THEN Out1 ELSE Out2
    BY <2>1, <2>2, ServerPackets
  <2>4. ASSUME NEW m \in Out, m # n PROVE Turn(m)'
    BY <1>4, <2>1, <2>3, <2>4, Distinct DEF OwnIds
  <2>5. /\ Turn(n) /\ Publish(IdOf[n], n) \in Range(up) /\ Publish(IdOf[n], n) \notin Range(up')
        /\ Packet("PubRec", IdOf[n]) \notin Range(down)
    BY <1>1, <2>1 DEF Turns, Turn
  <2>6. /\ sent[IdOf[n]] # Entry("Released", n) /\ reply[n] # "idle"
    BY <2>5 DEF Turn
  <2>7. /\ Single(down', Packet("PubRec", IdOf[n])) /\ Single(up', Publish(IdOf[n], n))
        /\ Range(down') = Range(down) \cup {Packet(ty, IdOf[n])}
    BY <1>1, <1>3, <2>3, <2>5 DEF Turn
  <2>8. /\ Packet("PubAck", IdOf[n]) \in Range(down') => n \in Out1
        /\ Packet("PubRec", IdOf[n]) \in Range(down') => n \in Out2
        /\ Packet("PubComp", IdOf[n]) \in Range(down') => Packet("PubComp", IdOf[n]) \in Range(down)
    BY <2>3, <2>5, <2>7, Distinct DEF Turn
  <2>9. Turn(n)'
    BY <1>1, <1>2, <2>5, <2>6, <2>7, <2>8 DEF Turn
  <2> QED
    BY <2>4, <2>9 DEF Turns
<1>6. CASE p.ty = "PubRel"
  <2>1. p.id \in Ids /\ p = Packet("PubRel", p.id) /\ Packet("PubComp", p.id) \in FromServer
    BY <1>1, <1>6, ClientPackets, ServerPackets
  <2>2. Reply(Packet("PubComp", p.id))
    BY <1>6 DEF ServerReceive
  <2>3. ASSUME NEW m \in Out, IdOf[m] # p.id PROVE Turn(m)'
    BY <1>4, <2>1, <2>2, <2>3, Distinct
  <2>4. ASSUME NEW m \in Out, IdOf[m] = p.id PROVE Turn(m)'
    <3>1. Turn(m) /\ Packet("PubRel", IdOf[m]) \in Range(up)
      BY <1>1, <2>1, <2>4 DEF Turns
    <3>2. sent[IdOf[m]] # Entry("Sent", m) /\ reply[m] # "idle"
      BY <3>1 DEF Turn
    <3>3. /\ Range(down') = Range(down) \cup {Packet("PubComp", IdOf[m])}
          /\ Packet("PubComp", IdOf[m]) # Packet("PubRec", IdOf[m])
          /\ Packet("PubComp", IdOf[m]) # Packet("PubAck", IdOf[m])
      BY <1>3, <2>1, <2>2, <2>4, Distinct
    <3>4. Single(down', Packet("PubRec", IdOf[m])) /\ Single(up', Publish(IdOf[m], m))
      BY <1>1, <1>3, <2>1, <2>2, <2>4, <3>1, <3>3 DEF Turn
    <3> QED
      BY <1>1, <1>2, <3>1, <3>2, <3>3, <3>4 DEF Turn
  <2> QED
    BY <2>3, <2>4 DEF Turns
<1>7. CASE p.ty = "PubRec"
  <2>1. Packet("PubRel", p.id) \in FromServer
    BY <1>1, <1>7, ClientPackets, ServerPackets DEF In
  <2>2. Reply(Packet("PubRel", p.id))
    BY <1>7 DEF ServerReceive
  <2> QED
    BY <1>4, <2>1, <2>2, Distinct DEF Turns
<1>8. CASE p.ty \in {"PubAck", "PubComp"}
  BY <1>4, <1>8 DEF ServerReceive, Turns
<1> QED
  BY <1>5, <1>6, <1>7, <1>8 DEF ServerReceive

\* A call is made once, and before that nothing of its flow is on the stream.
LEMMA PublishTurns ==
  ASSUME OwnIds, IInv, Types, Taken, Turns, NEW n \in Out, ClientPublish(n)
  PROVE  Turns'
<1> USE PublishAssumption DEF stream, server
<1>1. /\ down' = down /\ reply[n] = "idle" /\ reply'[n] # "idle"
      /\ \A m \in Out : reply'[m] = "idle" => reply[m] = "idle"
  BY DEF ClientPublish, IInv, Tables
<1>2. \A id \in Ids : sent'[id] \in {sent[id], Entry("Sent", n)}
                        /\ (sent'[id] # sent[id] => id = IdOf[n])
  BY DEF ClientPublish, IInv, Tables
<1>3. Turn(n) /\ Publish(IdOf[n], n) \notin Range(up)
  BY <1>1 DEF Turns, Turn
<1>4. up' = up \/ up' = Append(up, Publish(IdOf[n], n))
  BY DEF ClientPublish
<1>5. /\ Range(up') \subseteq Range(up) \cup {Publish(IdOf[n], n)}
      /\ \A q : Single(up, q) /\ (q # Publish(IdOf[n], n) \/ q \notin Range(up)) => Single(up', q)
  <2> DEFINE P == Publish(IdOf[n], n)
  <2>1. P \in FromClient /\ up \in Seq(FromClient)
    BY ClientPackets DEF Types
  <2> HIDE DEF P
  <2>2. /\ Range(Append(up, P)) = Range(up) \cup {P}
        /\ \A q : Single(up, q) /\ (P # q \/ q \notin Range(up)) => Single(Append(up, P), q)
    BY <2>1, Puts
  <2>3. up' = up \/ up' = Append(up, P)
    BY <1>4 DEF P
  <2>4. /\ Range(up') \subseteq Range(up) \cup {P}
        /\ \A q : Single(up, q) /\ (q # P \/ q \notin Range(up)) => Single(up', q)
    BY <2>2, <2>3
  <2> QED
    BY <2>4 DEF P
<1>6. ASSUME NEW m \in Out, m # n PROVE Turn(m)'
  <2>1. Turn(m) /\ IdOf[m] \in Ids /\ IdOf[m] # IdOf[n]
    BY <1>6 DEF Turns, OwnIds
  <2>2. Publish(IdOf[m], m) # Publish(IdOf[n], n) /\ Packet("PubRel", IdOf[m]) # Publish(IdOf[n], n)
    BY <1>6, Distinct
  <2>3. Single(up', Publish(IdOf[m], m)) /\ Single(down', Packet("PubRec", IdOf[m]))
    BY <1>1, <1>5, <2>1, <2>2 DEF Turn
  <2> QED
    BY <1>1, <1>2, <1>5, <2>1, <2>2, <2>3, TurnStays
<1>7. Turn(n)'
  <2>1. Single(up', Publish(IdOf[n], n)) /\ Single(down', Packet("PubRec", IdOf[n]))
    BY <1>1, <1>3, <1>5 DEF Turn
  <2>2. Packet("PubRel", IdOf[n]) \notin Range(up')
    BY <1>1, <1>3, <1>5, Distinct DEF Turn
  <2>3. sent'[IdOf[n]] # Entry("Released", n)
    <3>1. IdOf[n] \in Ids /\ Entry("Released", n) # Entry("Sent", n)
      BY DEF Entry
    <3>2. sent[IdOf[n]] # Entry("Released", n)
      <4>1. Entry("Released", n) # NoEntry /\ Entry("Released", n).msg = n
        BY DEF Entry
      <4> QED
        BY <1>1, <3>1, <4>1 DEF IInv, FlowsAreStarted, Tracked
    <3> QED
      BY <1>2, <3>1, <3>2
  <2> QED
    BY <1>1, <1>3, <2>1, <2>2, <2>3 DEF Turn
<1> QED
  BY <1>6, <1>7 DEF Turns

\* Every step keeps Turns.
LEMMA TurnsStep ==
  ASSUME OwnIds, IInv, Types, Taken, Turns, Next
  PROVE  Turns' /\ (status # "Crashed" => status' # "Crashed")
<1> USE PublishAssumption DEF tables, caller, stream, server
<1>1. CASE UNCHANGED <<sent, reply, up, down>> /\ status' # "Crashed"
  BY <1>1 DEF Turns, Turn
<1>2. /\ Range(<<>>) = {} /\ \A q : Single(<<>>, q)
  BY EmptySeq DEF Range, Single
<1>3. ASSUME up' = <<>>, \A q : Single(down', q),
             \A ty \in {"PubAck", "PubRec", "PubComp"} : \A i : Packet(ty, i) \notin Range(down'),
             \A id \in Ids : sent'[id] \in {sent[id], NoEntry},
             \A m \in Out : reply'[m] = "idle" => reply[m] = "idle"
      PROVE  Turns'
  <2> SUFFICES ASSUME NEW m \in Out PROVE Turn(m)'
    BY DEF Turns
  <2> QED
    BY <1>2, <1>3, TurnStays DEF Turns
<1>4. CASE ConnectionLost
  BY <1>2, <1>3, <1>4 DEF ConnectionLost
<1>5. CASE Reconnect
  <2>1. Range(down') \subseteq Range(Unsettled) /\ \A q : Single(down', q)
    BY <1>5, Repetitions, Orders DEF Reconnect
  <2>2. \A q \in Range(Unsettled) : \E x \in In : q \in {Publish(x, x), Packet("PubRel", x)}
    BY DEF Unsettled, Range
  <2>3. \A ty \in {"PubAck", "PubRec", "PubComp"} : \A i : Packet(ty, i) \notin Range(down')
    BY <2>1, <2>2, Distinct
  <2> QED
    BY <1>3, <1>5, <2>1, <2>3 DEF Reconnect
<1>6. CASE Restart
  <2>1. /\ \A id \in Ids : sent'[id] = NoEntry
        /\ \A m \in Out : reply'[m] = "idle" => reply[m] = "idle"
        /\ up' = <<>> /\ down' = <<>> /\ status' = "Suspended"
    BY <1>6 DEF Restart, Resolve
  <2> QED
    BY <1>2, <1>3, <2>1
<1>7. ASSUME NEW x \in In, ServerPublish(x) PROVE Turns'
  <2> SUFFICES ASSUME NEW m \in Out PROVE Turn(m)'
    BY DEF Turns
  <2>1. /\ Range(down') = Range(down) \cup {Publish(x, x)}
        /\ \A q : Single(down, q) /\ Publish(x, x) # q => Single(down', q)
    BY <1>7, Puts, ServerPackets DEF ServerPublish, Types
  <2>2. UNCHANGED <<sent, reply, up>> /\ Turn(m)
    BY <1>7 DEF ServerPublish, Turns
  <2>3. Single(up', Publish(IdOf[m], m)) /\ Single(down', Packet("PubRec", IdOf[m]))
    BY <2>1, <2>2, Distinct DEF Turn
  <2> QED
    BY <2>1, <2>2, <2>3, Distinct, TurnStays
<1>8. CASE ~Receive
  <2>1. status # "Crashed" => status' # "Crashed"
    BY <1>8 DEF Next, ClientPublish, Disconnect, Suspend, ConnectionLost, Reconnect, Restart,
                ServerPublish, ServerReceive
  <2> QED
    BY <1>1, <1>4, <1>5, <1>6, <1>7, <1>8, <2>1, PublishTurns, ServerTurns
    DEF Next, Disconnect, Suspend
<1> QED
  BY <1>8, ReceiveTurns

\* With an identifier for each message the unreachable!() of the handlers are
\* unreachable (inbound_handlers.rs:148, 176, 234), whatever fails, is lost or
\* is started again: no acknowledgement meets a flow in another state.
THEOREM HandlersDoNotPanic ==
  ASSUME OwnIds
  PROVE  Spec => []NeverPanics
<1>1. Init => Turns /\ NeverPanics
  <2>1. Range(<<>>) = {} /\ \A q : Single(<<>>, q)
    BY EmptySeq DEF Range, Single
  <2>2. \A m \in Out : IdOf[m] \in Ids /\ Entry("Released", m) # NoEntry
    BY PublishAssumption DEF Entry
  <2> QED
    BY <2>1, <2>2 DEF Init, Turns, Turn, NeverPanics
<1>2. IInv /\ Types /\ Taken /\ Turns /\ NeverPanics /\ [Next]_vars => Turns' /\ NeverPanics'
  <2>1. Turns /\ UNCHANGED vars => Turns'
    BY DEF vars, tables, caller, stream, server, Turns, Turn
  <2>2. UNCHANGED vars => status' = status
    BY DEF vars
  <2> QED
    BY <2>1, <2>2, TurnsStep DEF NeverPanics
<1> QED
  BY <1>1, <1>2, TakenHolds, PTL DEF Spec
=============================================================================
