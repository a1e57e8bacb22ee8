---------------------------- MODULE PublishFlows ----------------------------
(***************************************************************************)
(* The QoS 1 and QoS 2 flows of the Loop actor: the packets a client has   *)
(* published and the server has not settled (client_publish_state and the  *)
(* persistence store), and those the server has published with QoS 2 and   *)
(* not released yet (server_publish_state).                                *)
(*                                                                         *)
(* Of the life of the loop (module Session) this module keeps whether the  *)
(* status routes packets to the handlers: all of them when "Connected",    *)
(* all but PUBLISH when "Waiting" for a disconnect, none when "Suspended", *)
(* which stands for PendingError, None and Connecting.  The store is used  *)
(* through its contract (module PacketStore): a key for each packet.       *)
(*                                                                         *)
(* External: the server.  It keeps the session of the client, answers each *)
(* packet in order, publishes each message under an identifier of its own, *)
(* and repeats what is not settled when the client connects again.         *)
(***************************************************************************)
EXTENDS Naturals, SequencesExt

CONSTANTS
  Out1, Out2,     \* messages the client publishes, with QoS 1 and QoS 2
  In1, In2,       \* messages the server publishes
  Ids,            \* packet identifiers
  IdOf,           \* the identifier each published message is sent under
  NoEntry,        \* an identifier with no flow
  Faults,         \* "io" the store fails, "crash" the program is stopped
                  \* between two operations on the store
  MaxReconnects,  \* bounds: how often the client connects again,
  MaxRestarts     \* and how often its process starts again

Out == Out1 \cup Out2
In == In1 \cup In2

ASSUME PublishAssumption ==
  /\ IsFiniteSet(In)
  /\ Out1 \cap Out2 = {} /\ In1 \cap In2 = {} /\ Out \cap In = {}
  /\ IdOf \in [Out -> Ids]
  /\ NoEntry \notin [st : {"Sent", "Released"}, msg : Out]
  /\ Faults \subseteq {"io", "crash"}
  /\ MaxReconnects \in Nat /\ MaxRestarts \in Nat

VARIABLES
  status,      \* "Connected", "Waiting", "Suspended" or "Crashed"
  sent,        \* client_publish_state: identifier -> flow
  received,    \* server_publish_state: QoS 2 messages not released
  store,       \* the packets in the persistence store
  reply,       \* what the future of each publish call resolved to
  delivered,   \* how often a message reached its subscribers
  link,        \* the stream: "open" or "broken"
  up, down,    \* packets on it, to the server and to the client
  got,         \* messages the server took over
  unreleased,  \* identifiers of QoS 2 flows it waits to have released
  phase,       \* how far it is with the messages it publishes
  reconnects, restarts

tables == <<sent, received, store>>
caller == <<reply, delivered>>
stream == <<link, up, down>>
server == <<got, unreleased, phase>>
counts == <<reconnects, restarts>>
vars == <<status, tables, caller, stream, server, counts>>

\* Sent(key, sender) and Released(key, sender): both belong to a message.
Entry(st, m) == [st |-> st, msg |-> m]
Entries == [st : {"Sent", "Released"}, msg : Out]

\* Mutant: the packet is kept under the name of the state.
PersistedByState(e) == <<e.st, e.msg>>

\* The packet each state keeps in the store.
Persisted(e) == <<IF e.st = "Sent" THEN "Publish" ELSE "PubRel", e.msg>>

Publish(id, m) == [ty |-> "Publish", id |-> id, msg |-> m]
Packet(ty, id) == [ty |-> ty, id |-> id, msg |-> id]

PacketTypes == {"Publish", "PubAck", "PubRec", "PubRel", "PubComp"}
Packets == [ty : PacketTypes, id : Ids \cup In, msg : Out \cup In \cup Ids]

TypeOK ==
  /\ status \in {"Connected", "Waiting", "Suspended", "Crashed"}
  /\ sent \in [Ids -> Entries \cup {NoEntry}]
  /\ received \subseteq In2
  /\ store \subseteq {"Publish", "PubRel"} \X Out
  /\ reply \in [Out -> {"idle", "waiting", "ok", "lost", "persistence", "loopError"}]
  /\ delivered \in [In -> Nat]
  /\ link \in {"open", "broken"}
  /\ up \in Seq(Packets) /\ down \in Seq(Packets)
  /\ got \subseteq Out
  /\ unreleased \subseteq Ids
  /\ phase \in [In -> {"new", "published", "released", "done"}]
  /\ reconnects \in 0..MaxReconnects /\ restarts \in 0..MaxRestarts

Init ==
  /\ status = "Connected"
  /\ sent = [id \in Ids |-> NoEntry] /\ received = {} /\ store = {}
  /\ reply = [m \in Out |-> "idle"] /\ delivered = [x \in In |-> 0]
  /\ link = "open" /\ up = <<>> /\ down = <<>>
  /\ got = {} /\ unreleased = {} /\ phase = [x \in In |-> "new"]
  /\ reconnects = 0 /\ restarts = 0

-----------------------------------------------------------------------------
(* What the handlers share.                                                *)

IoFails == "io" \in Faults

\* contains_key, and a key in one of the two states of its flow.
Tracked(id) == id \in Ids /\ sent[id] # NoEntry
InState(id, st) == Tracked(id) /\ sent[id].st = st

\* The senders of M are used, or dropped ("lost"), if their calls still wait.
Resolve(M, v) ==
  reply' = [m \in Out |-> IF m \in M /\ reply[m] = "waiting" THEN v ELSE reply[m]]

Forget(id) == sent' = [sent EXCEPT ![id] = NoEntry]

\* A packet is taken from the stream, and nothing or an answer put on it.
Take == down' = Tail(down) /\ UNCHANGED <<link, up>>
TakeAndSend(p) == down' = Tail(down) /\ up' = Append(up, p) /\ UNCHANGED link

\* unreachable!() in a handler: the actor dies and drops its senders.
Panic ==
  /\ status' = "Crashed" /\ Resolve(Out, "lost") /\ Take
  /\ UNCHANGED <<tables, delivered>>

\* The handler returns an error, or the status ignores the packet.
Ignore == Take /\ UNCHANGED <<status, tables, caller>>

Deliver(x) == delivered' = [delivered EXCEPT ![x] = @ + 1]

-----------------------------------------------------------------------------
(* The client publishes.                                                   *)

\* Mutant: the future resolves as soon as the packet is sent.
ClientPublishResolves(m) ==
  /\ status # "Crashed" /\ reply[m] = "idle" /\ link = "open"
  /\ reply' = [reply EXCEPT ![m] = "ok"]
  /\ up' = Append(up, Publish(IdOf[m], m))
  /\ UNCHANGED <<status, tables, delivered, link, down, server, counts>>

\* The handler does not look at the status, and insert drops the flow that
\* was under the identifier.
ClientPublish(m) ==
  /\ status # "Crashed" /\ reply[m] = "idle"
  /\ \/ /\ IoFails
        /\ reply' = [reply EXCEPT ![m] = "persistence"]
        /\ UNCHANGED <<sent, store, up>>
     \/ /\ store' = store \cup {<<"Publish", m>>}
        /\ sent' = [sent EXCEPT ![IdOf[m]] = Entry("Sent", m)]
        /\ reply' = [n \in Out |->
             IF n = m THEN IF link = "open" THEN "waiting" ELSE "loopError"
             ELSE IF Tracked(IdOf[m]) /\ sent[IdOf[m]].msg = n /\ reply[n] = "waiting"
                    THEN "lost" ELSE reply[n]]
        /\ up' = IF link = "open" THEN Append(up, Publish(IdOf[m], m)) ELSE up
  /\ UNCHANGED <<status, received, delivered, link, down, server, counts>>

\* Mutant: the flow is looked up and left in the table, with its sender.
pub_ack_keeps(id) ==
  IF ~InState(id, "Sent") THEN Ignore ELSE
    /\ store' = store \ {Persisted(sent[id])}
    /\ Take /\ UNCHANGED <<status, sent, received, caller>>

pub_ack_handler(id) ==
  \/ ~Tracked(id) /\ Ignore
  \/ InState(id, "Released") /\ Panic
  \/ /\ InState(id, "Sent")
     /\ Forget(id)
     /\ \/ store' = store \ {Persisted(sent[id])} /\ Resolve({sent[id].msg}, "ok")
        \/ IoFails /\ UNCHANGED store /\ Resolve({sent[id].msg}, "persistence")
     /\ Take /\ UNCHANGED <<status, received, delivered>>

\* Mutant: the flow goes on under the key of the removed packet.
pub_rec_keeps_key(id) ==
  IF ~InState(id, "Sent") THEN Ignore ELSE
    /\ sent' = [sent EXCEPT ![id].st = "Released"]
    /\ store' = store \ {Persisted(sent[id])}
    /\ TakeAndSend(Packet("PubRel", id))
    /\ UNCHANGED <<status, received, caller>>

\* Mutant: the flow stays in the state Sent.
pub_rec_stays(id) ==
  IF ~InState(id, "Sent") THEN Ignore ELSE
    /\ TakeAndSend(Packet("PubRel", id))
    /\ UNCHANGED <<status, tables, caller>>

\* Mutant: the flow is not put back.
pub_rec_removes(id) ==
  IF ~InState(id, "Sent") THEN Ignore ELSE
    /\ Forget(id) /\ store' = store \ {Persisted(sent[id])}
    /\ TakeAndSend(Packet("PubRel", id))
    /\ UNCHANGED <<status, received, caller>>

\* The PUBLISH is removed from the store before the PUBREL is appended.  If
\* the first fails the sender is dropped, if the second does it is told.
pub_rec_handler(id) ==
  \/ ~Tracked(id) /\ Ignore
  \/ InState(id, "Released") /\ Panic
  \/ /\ InState(id, "Sent")
     /\ LET m == sent[id].msg
            e == Entry("Released", m)
            without == store \ {Persisted(sent[id])}
        IN \/ /\ store' = without \cup {Persisted(e)}
              /\ sent' = [sent EXCEPT ![id] = e]
              /\ TakeAndSend(Packet("PubRel", id)) /\ UNCHANGED reply
           \/ /\ IoFails /\ Forget(id) /\ Take
              /\ \/ UNCHANGED store /\ Resolve({m}, "lost")
                 \/ store' = without /\ Resolve({m}, "persistence")
     /\ UNCHANGED <<status, received, delivered>>

\* Mutant: the PUBREL stays in the store.
pub_comp_leaves(id) ==
  IF ~Tracked(id) THEN Ignore ELSE
    /\ Forget(id) /\ Resolve({sent[id].msg}, "ok")
    /\ Take /\ UNCHANGED <<status, received, store, delivered>>

pub_comp_handler(id) ==
  \/ ~Tracked(id) /\ Ignore
  \/ InState(id, "Sent") /\ Panic
  \/ /\ InState(id, "Released")
     /\ Forget(id)
     /\ \/ store' = store \ {Persisted(sent[id])} /\ Resolve({sent[id].msg}, "ok")
        \/ IoFails /\ UNCHANGED store /\ Resolve({sent[id].msg}, "persistence")
     /\ Take /\ UNCHANGED <<status, received, delivered>>

-----------------------------------------------------------------------------
(* The server publishes.                                                   *)

\* A QoS 2 message that comes again is an error, and gets no PUBREC.
publish_handler(x) ==
  \/ /\ x \in In1
     /\ Deliver(x) /\ TakeAndSend(Packet("PubAck", x))
     /\ UNCHANGED <<status, tables, reply>>
  \/ x \in received /\ Ignore
  \/ /\ x \in In2 \ received
     /\ received' = received \cup {x} /\ TakeAndSend(Packet("PubRec", x))
     /\ UNCHANGED <<status, sent, store, caller>>

\* Mutant: the packet is looked up and not removed.
pub_rel_keeps(x) ==
  IF x \notin received THEN Ignore ELSE
    /\ Deliver(x) /\ TakeAndSend(Packet("PubComp", x))
    /\ UNCHANGED <<status, tables, reply>>

pub_rel_handler(x) ==
  \/ x \notin received /\ Ignore
  \/ /\ x \in received
     /\ received' = received \ {x}
     /\ Deliver(x) /\ TakeAndSend(Packet("PubComp", x))
     /\ UNCHANGED <<status, sent, store, reply>>

\* Handler<MqttPacket>: the status decides which handler sees the packet.
Receive ==
  /\ status # "Crashed" /\ down # <<>>
  /\ LET p == Head(down) IN
     \/ status = "Suspended" /\ Ignore
     \/ status = "Waiting" /\ p.ty = "Publish" /\ Ignore
     \/ status = "Connected" /\ p.ty = "Publish" /\ publish_handler(p.msg)
     \/ /\ status \in {"Connected", "Waiting"}
        /\ \/ p.ty = "PubAck" /\ pub_ack_handler(p.id)
           \/ p.ty = "PubRec" /\ pub_rec_handler(p.id)
           \/ p.ty = "PubRel" /\ pub_rel_handler(p.id)
           \/ p.ty = "PubComp" /\ pub_comp_handler(p.id)
  /\ UNCHANGED <<server, counts>>

-----------------------------------------------------------------------------
(* The life of the connection and of the process.                          *)

\* Disconnect with a timeout: the loop waits for work to finish.
Disconnect ==
  /\ status = "Connected" /\ status' = "Waiting"
  /\ UNCHANGED <<tables, caller, stream, server, counts>>

\* A ping times out, with the stream broken or only slow.
Suspend ==
  /\ status \in {"Connected", "Waiting"} /\ reconnects < MaxReconnects
  /\ status' = "Suspended"
  /\ UNCHANGED <<tables, caller, stream, server, counts>>

ConnectionLost ==
  /\ status # "Crashed" /\ link = "open" /\ reconnects < MaxReconnects
  /\ link' = "broken" /\ up' = <<>> /\ down' = <<>>
  /\ UNCHANGED <<status, tables, caller, server, counts>>

\* What the server repeats to a client that comes back.
Unsettled == [x \in {y \in In : phase[y] \in {"published", "released"}} |->
               IF phase[x] = "published" THEN Publish(x, x) ELSE Packet("PubRel", x)]

\* The caller connects again with a new stream.  The tables are used on as
\* they are, and nothing in them is sent again.
Reconnect ==
  /\ status = "Suspended" /\ reconnects < MaxReconnects
  /\ status' = "Connected" /\ reconnects' = reconnects + 1
  /\ link' = "open" /\ up' = <<>>
  /\ down' \in SetToSeqs(Range(Unsettled))
  /\ UNCHANGED <<tables, caller, server, restarts>>

\* The tables of a new process are empty (LoopData::new), whatever the store
\* holds.  The old one may have stopped between the two operations of
\* pub_rec_handler on the store.
Restart ==
  /\ status # "Crashed" /\ restarts < MaxRestarts
  /\ restarts' = restarts + 1 /\ status' = "Suspended"
  /\ sent' = [id \in Ids |-> NoEntry] /\ received' = {}
  /\ \/ UNCHANGED store
     \/ /\ "crash" \in Faults /\ status \in {"Connected", "Waiting"} /\ down # <<>>
        /\ LET p == Head(down) IN
           /\ p.ty = "PubRec" /\ InState(p.id, "Sent")
           /\ store' = store \ {Persisted(sent[p.id])}
  /\ Resolve(Out, "lost")
  /\ link' = "broken" /\ up' = <<>> /\ down' = <<>>
  /\ UNCHANGED <<delivered, server, reconnects>>

-----------------------------------------------------------------------------
(* The server.                                                             *)

ServerPublish(x) ==
  /\ link = "open" /\ phase[x] = "new"
  /\ phase' = [phase EXCEPT ![x] = "published"]
  /\ down' = Append(down, Publish(x, x))
  /\ UNCHANGED <<status, tables, caller, link, up, got, unreleased, counts>>

Reply(p) == down' = Append(down, p)

\* An identifier that is not released yet marks a PUBLISH as a repetition.
ServerReceive ==
  /\ link = "open" /\ up # <<>>
  /\ up' = Tail(up)
  /\ LET p == Head(up) IN
     \/ /\ p.ty = "Publish" /\ p.msg \in Out1
        /\ got' = got \cup {p.msg} /\ Reply(Packet("PubAck", p.id))
        /\ UNCHANGED <<unreleased, phase>>
     \/ /\ p.ty = "Publish" /\ p.msg \in Out2
        /\ got' = IF p.id \in unreleased THEN got ELSE got \cup {p.msg}
        /\ unreleased' = unreleased \cup {p.id}
        /\ Reply(Packet("PubRec", p.id)) /\ UNCHANGED phase
     \/ /\ p.ty = "PubRel"
        /\ unreleased' = unreleased \ {p.id}
        /\ Reply(Packet("PubComp", p.id)) /\ UNCHANGED <<got, phase>>
     \/ /\ p.ty = "PubRec"
        /\ phase' = [phase EXCEPT ![p.id] = "released"]
        /\ Reply(Packet("PubRel", p.id)) /\ UNCHANGED <<got, unreleased>>
     \/ /\ p.ty \in {"PubAck", "PubComp"}
        /\ phase' = [phase EXCEPT ![p.id] = "done"]
        /\ UNCHANGED <<got, unreleased, down>>
  /\ UNCHANGED <<status, tables, caller, link, counts>>

Next ==
  \/ \E m \in Out : ClientPublish(m)
  \/ Receive
  \/ Disconnect
  \/ Suspend
  \/ ConnectionLost
  \/ Reconnect
  \/ Restart
  \/ \E x \in In : ServerPublish(x)
  \/ ServerReceive

Spec == Init /\ [][Next]_vars

\* The reactor polls the stream, and the server works.  A caller whose
\* connection is gone connects again.
FairSpec == Spec /\ WF_vars(Receive) /\ WF_vars(ServerReceive)
                 /\ WF_vars(Suspend /\ link = "broken") /\ WF_vars(Reconnect)

-----------------------------------------------------------------------------
(* Properties.                                                             *)

\* A flow of the client table has the packet that would be sent again in the
\* store (mqtt_loop.rs:60, persistence/mod.rs:7), whatever fails or is overwritten.
InFlightIsPersisted == \A id \in Ids : Tracked(id) => Persisted(sent[id]) \in store

\* Under one identifier for each message and a store that works, the store
\* holds nothing but the flows: no flow leaves a packet behind.
NoOrphans == \A q \in store : \E id \in Ids : Tracked(id) /\ q = Persisted(sent[id])

\* Nobody waits for a flow the loop has forgotten.
WaitingIsTracked ==
  \A m \in Out : reply[m] = "waiting" => \E id \in Ids : Tracked(id) /\ sent[id].msg = m

\* The unreachable!() of the handlers (inbound_handlers.rs:148, 176, 234)
\* are not reached.
NeverPanics == status # "Crashed"

\* A publish call that succeeds was taken over by the server (client.rs:195).
OkMeansTaken == \A m \in Out : reply[m] = "ok" => m \in got

\* A QoS 2 message reaches the subscribers once at most, over repetitions,
\* new connections and restarts.
AtMostOnce == \A x \in In2 : delivered[x] <= 1

\* When the server releases a QoS 2 message, the loop has it or has passed it
\* on: it is not lost between PUBREC and PUBREL.
ReleasedIsKept ==
  \A x \in In2 : phase[x] = "released" => x \in received \/ delivered[x] > 0

\* With an identifier for each message, and a process that is not started
\* again, the loop keeps the promises of module Delivery: a call succeeds only
\* for what the server took, and a QoS 2 message the server lets go of is held
\* until it is passed on, once, whatever is repeated after a new connection.
Promise == INSTANCE Delivery WITH
  In <- In2,
  told <- [m \in Out |-> IF reply[m] \in {"idle", "waiting", "ok"} THEN reply[m] ELSE "failed"],
  taken <- got,
  held <- received,
  passedOn <- [x \in In2 |-> delivered[x]],
  released <- {x \in In2 : phase[x] \in {"released", "done"}}

KeepsPromises == Promise!Spec

\* On a connection that holds, a publish call resolves.
PublishResolves ==
  \A m \in Out : reply[m] = "waiting"
                  ~> reply[m] # "waiting" \/ link = "broken" \/ reconnects > 0

-----------------------------------------------------------------------------
(* What comments and documentation say, and the code does not do.          *)

\* persistence/mod.rs:7: until its flow is over, a message the server has
\* taken and waits to have released is in the store.
UnreleasedIsPersisted ==
  \A m \in Out2 : IdOf[m] \in unreleased /\ link = "broken" =>
    \E ty \in {"Publish", "PubRel"} : <<ty, m>> \in store

\* backend/mod.rs:156: a QoS 2 publish of the server is received, answered,
\* released and completed, unless the client disconnects.
ServerFlowCompletes ==
  \A x \in In2 : phase[x] = "published" ~> phase[x] = "done" \/ status = "Waiting"
=============================================================================
