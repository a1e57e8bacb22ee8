---------------------------- MODULE Subscriptions ----------------------------
(***************************************************************************)
(* The subscriptions of the Loop actor: the table of requests that wait    *)
(* for a SUBACK or an UNSUBACK (one_time), the identifiers they are sent   *)
(* under, and the table of streams (subscriptions) that the messages with  *)
(* QoS 0 and 1 are copied to.                                              *)
(*                                                                         *)
(* Of the life of the loop (module Session) this module keeps whether the  *)
(* status is Connected, and whether the stream still works then.  A lost   *)
(* connection loses what is on the stream and keeps the tables, which      *)
(* LoopData marks REUSABLE.                                                *)
(*                                                                         *)
(* External: the broker.  It answers requests in the order they come, with *)
(* a code for each filter, and publishes for the filters it granted.       *)
(***************************************************************************)
EXTENDS Naturals, SequencesExt

CONSTANTS
  Calls,          \* calls of subscribe_many and unsubscribe_many
  Filters, Names, \* topic filters, and topic names of messages
  MatchedBy,      \* MatchedBy[f]: the names match_topic matches with f
  CoveredBy,      \* CoveredBy[f]: the names the broker sends for f
  WithEmptyLevel, \* names with nothing between two slashes
  WithHash,       \* filters that end in a #
  TooLong,        \* filters MqttString refuses
  Unparsable,     \* filters TopicFilter refuses
  Grantable,      \* filters the broker may grant
  OldFilters,     \* filters of the session the broker kept for the client
  IdSpace,        \* how many packet identifiers there are
  Clean,          \* the client connects with a clean session
  MaxBatch,       \* bounds: filters in a call,
  MaxInbox,       \* packets on their way to the client,
  MaxLosses       \* and lost connections

ASSUME SubscriptionsAssumption ==
  /\ MatchedBy \in [Filters -> SUBSET Names]
  /\ CoveredBy \in [Filters -> SUBSET Names]
  /\ TooLong \subseteq Filters /\ Unparsable \subseteq Filters
  /\ Grantable \subseteq Filters /\ OldFilters \subseteq Filters
  /\ IdSpace \in Nat \ {0} /\ Clean \in BOOLEAN
  /\ MaxBatch \in Nat /\ MaxInbox \in Nat /\ MaxLosses \in Nat

VARIABLES
  link,          \* "open"; "broken" while the status is still Connected;
                 \* "down" once it is not
  nextPacketId,  \* next_packet_id
  oneTime,       \* one_time: <<kind, identifier>> -> request
  subscriptions, \* filter -> the stream it feeds
  answer,        \* what the future of each call resolved to
  heard,         \* streams the latest PUBLISH was copied to
  outbox, inbox, \* packets to the broker and to the client
  broker,        \* filters the broker publishes for
  losses

client == <<nextPacketId, oneTime, subscriptions, answer, heard>>
net == <<outbox, inbox>>
vars == <<link, client, net, broker, losses>>

Kinds == {"Subscribe", "Unsubscribe"}
Batches == UNION {[1..n -> Filters] : n \in 1..MaxBatch}
Requests == [call : Calls, batch : Batches]

\* A stream is named by the call and the place in its batch it was made for.
SubscriptionStreams == Calls \X (1..MaxBatch)

SubAck(id, b, codes) == [ty |-> "SubAck", id |-> id, batch |-> b, codes |-> codes]
UnsubAck(id, b) == [ty |-> "UnsubAck", id |-> id, batch |-> b]
Publish(n) == [ty |-> "Publish", name |-> n]

TypeOK ==
  /\ link \in {"open", "broken", "down"}
  /\ nextPacketId \in Nat
  /\ DOMAIN oneTime \subseteq Kinds \X (0..IdSpace - 1)
  /\ oneTime \in [DOMAIN oneTime -> Requests]
  /\ DOMAIN subscriptions \subseteq Filters
  /\ subscriptions \in [DOMAIN subscriptions -> SubscriptionStreams]
  /\ answer \in [Calls -> {"idle", "waiting", "ok", "error", "lost"}]
  /\ heard \subseteq SubscriptionStreams
  /\ broker \subseteq Filters
  /\ losses \in 0..MaxLosses

Init ==
  /\ link = "open" /\ nextPacketId = 0
  /\ oneTime = <<>> /\ subscriptions = <<>>
  /\ answer = [c \in Calls |-> "idle"] /\ heard = {}
  /\ outbox = <<>> /\ inbox = <<>>
  /\ broker = OldFilters /\ losses = 0

-----------------------------------------------------------------------------
(* What the handlers share.                                                *)

\* Mutant: the counter is used as it is.
FullId == nextPacketId

\* The identifier on the wire has 16 bits, the counter more.
WireId == nextPacketId % IdSpace
gen_packet_id == nextPacketId' = nextPacketId + 1

\* MqttString::from_str, TopicFilter::from_string and match_topic.
from_str(f) == f \notin TooLong
from_string(f) == f \notin Unparsable
match_with(f, n) == n \in MatchedBy[f]

Without(table, keys) == [k \in DOMAIN table \ keys |-> table[k]]

\* Mutant: entry().or_insert() in place of insert.
InsertIfVacant(key, c, b) ==
  oneTime' = [k \in DOMAIN oneTime \cup {key} |->
                IF k \in DOMAIN oneTime THEN oneTime[k] ELSE [call |-> c, batch |-> b]]

\* insert drops the sender of the request that was under the key.
Insert(key, c, b) ==
  oneTime' = [k \in DOMAIN oneTime \cup {key} |->
                IF k = key THEN [call |-> c, batch |-> b] ELSE oneTime[k]]

Displaced(key) == {oneTime[k].call : k \in DOMAIN oneTime \cap {key}}

\* The calls in M that still wait are answered with v.
Answer(M, v) == [c \in Calls |->
                   IF c \in M /\ answer[c] = "waiting" THEN v ELSE answer[c]]

\* Identifiers of the requests and acknowledgements on the stream.
InFlight == {p.id : p \in {q \in Range(outbox) \cup Range(inbox) : q.ty # "Publish"}}

-----------------------------------------------------------------------------
(* Requests of the client.                                                 *)

\* A filter that MqttString refuses: the identifier is spent all the same.
RequestFails(kind, c, b) ==
  /\ link # "down" /\ answer[c] = "idle"
  /\ \E i \in DOMAIN b : ~from_str(b[i])
  /\ gen_packet_id
  /\ answer' = [answer EXCEPT ![c] = "error"]
  /\ UNCHANGED <<link, oneTime, subscriptions, heard, net, broker, losses>>

\* Mutant: unsubscribing removes the streams when the request is sent.
RequestUnsubscribesAtOnce(kind, c, b) ==
  /\ link # "down" /\ answer[c] = "idle"
  /\ \A i \in DOMAIN b : from_str(b[i])
  /\ gen_packet_id
  /\ Insert(<<kind, WireId>>, c, b)
  /\ outbox' = IF link = "open"
               THEN Append(outbox, [ty |-> kind, id |-> WireId, batch |-> b])
               ELSE outbox
  /\ answer' = [Answer(Displaced(<<kind, WireId>>), "lost")
                  EXCEPT ![c] = IF link = "open" THEN "waiting" ELSE "error"]
  /\ subscriptions' = IF kind = "Unsubscribe" THEN Without(subscriptions, Range(b))
                      ELSE subscriptions
  /\ UNCHANGED <<link, heard, inbox, broker, losses>>

\* Subscribe::handle and Unsubscribe::handle take the same steps, and their
\* caller sends the packet.  If that fails it reports an error, but what the
\* handler has put in the table stays.
Request(kind, c, b) ==
  /\ link # "down" /\ answer[c] = "idle"
  /\ \A i \in DOMAIN b : from_str(b[i])
  /\ gen_packet_id
  /\ Insert(<<kind, WireId>>, c, b)
  /\ outbox' = IF link = "open"
               THEN Append(outbox, [ty |-> kind, id |-> WireId, batch |-> b])
               ELSE outbox
  /\ answer' = [Answer(Displaced(<<kind, WireId>>), "lost")
                  EXCEPT ![c] = IF link = "open" THEN "waiting" ELSE "error"]
  /\ UNCHANGED <<link, subscriptions, heard, inbox, broker, losses>>

\* Handler<ClientRequest> refuses a call while the loop is not connected.
RefuseRequest(c) ==
  /\ link = "down" /\ answer[c] = "idle"
  /\ answer' = [answer EXCEPT ![c] = "error"]
  /\ UNCHANGED <<link, nextPacketId, oneTime, subscriptions, heard, net, broker, losses>>

-----------------------------------------------------------------------------
(* Packets from the broker.                                                *)

\* Mutant: a filter goes through TopicFilter before its code is looked at.
ReachedParsesFirst(b, codes) ==
  {i \in DOMAIN b : codes[i] /\ \A j \in 1..i : from_string(b[j])}

\* zip goes through filters and codes in order, and ? leaves the loop at the
\* first granted filter that TopicFilter refuses.
Reached(b, codes) ==
  {i \in DOMAIN b : /\ codes[i]
                    /\ \A j \in 1..i : codes[j] => from_string(b[j])}

\* insert replaces, so the last place that names a filter keeps it.
Subscribed(c, b, R) ==
  [f \in DOMAIN subscriptions \cup {b[i] : i \in R} |->
     IF \E i \in R : b[i] = f
     THEN <<c, CHOOSE i \in R : b[i] = f /\ \A j \in R : b[j] = f => j <= i>>
     ELSE subscriptions[f]]

\* Mutant: the sender is dropped without an answer to the call.
sub_ack_drops_sender(p) ==
  LET key == <<"Subscribe", p.id>> IN
  /\ key \in DOMAIN oneTime
  /\ LET r == oneTime[key] IN
       /\ subscriptions' = Subscribed(r.call, r.batch, Reached(r.batch, p.codes))
       /\ answer' = Answer({r.call}, "lost")
  /\ oneTime' = Without(oneTime, {key})
  /\ UNCHANGED heard

\* Mutant: the request stays in the table, and the call with it.
unsub_ack_keeps(p) ==
  LET key == <<"Unsubscribe", p.id>> IN
  /\ key \in DOMAIN oneTime
  /\ subscriptions' = Without(subscriptions, Range(oneTime[key].batch))
  /\ UNCHANGED <<oneTime, answer, heard>>

\* Mutant: only the first filter of the request is removed.
unsub_ack_first_only(p) ==
  LET key == <<"Unsubscribe", p.id>> IN
  /\ key \in DOMAIN oneTime
  /\ subscriptions' = Without(subscriptions, {oneTime[key].batch[1]})
  /\ answer' = Answer({oneTime[key].call}, "ok")
  /\ oneTime' = Without(oneTime, {key})
  /\ UNCHANGED heard

\* The request leaves the table before its filters are looked at: when one
\* is refused its sender is dropped, and what was subscribed so far stays.
sub_ack_handler(p) ==
  LET key == <<"Subscribe", p.id>> IN
  /\ key \in DOMAIN oneTime
  /\ LET c == oneTime[key].call
         b == oneTime[key].batch
         R == Reached(b, p.codes)
     IN /\ subscriptions' = Subscribed(c, b, R)
        /\ answer' = Answer({c}, IF R = {i \in DOMAIN b : p.codes[i]} THEN "ok" ELSE "lost")
  /\ oneTime' = Without(oneTime, {key})
  /\ UNCHANGED heard

unsub_ack_handler(p) ==
  LET key == <<"Unsubscribe", p.id>> IN
  /\ key \in DOMAIN oneTime
  /\ subscriptions' = Without(subscriptions, Range(oneTime[key].batch))
  /\ answer' = Answer({oneTime[key].call}, "ok")
  /\ oneTime' = Without(oneTime, {key})
  /\ UNCHANGED heard

\* Entry::Vacant: the handler returns UnexpectedResponse.
UnexpectedResponse(p) ==
  /\ <<IF p.ty = "SubAck" THEN "Subscribe" ELSE "Unsubscribe", p.id>> \notin DOMAIN oneTime
  /\ UNCHANGED <<oneTime, subscriptions, answer, heard>>

\* QoS 0 and 1 alike; the PUBACK is not modelled.
publish_handler(p) ==
  /\ heard' = {subscriptions[f] : f \in {g \in DOMAIN subscriptions : match_with(g, p.name)}}
  /\ UNCHANGED <<oneTime, subscriptions, answer>>

Receive ==
  /\ link = "open" /\ inbox # <<>>
  /\ inbox' = Tail(inbox)
  /\ LET p == Head(inbox) IN
       \/ p.ty = "SubAck" /\ sub_ack_handler(p)
       \/ p.ty = "UnsubAck" /\ unsub_ack_handler(p)
       \/ p.ty # "Publish" /\ UnexpectedResponse(p)
       \/ p.ty = "Publish" /\ publish_handler(p)
  /\ UNCHANGED <<link, nextPacketId, outbox, broker, losses>>

-----------------------------------------------------------------------------
(* The broker and the network.                                             *)

BrokerAnswers ==
  /\ link = "open" /\ outbox # <<>>
  /\ LET p == Head(outbox)
         b == p.batch
     IN \/ /\ p.ty = "Subscribe"
           /\ \E codes \in [DOMAIN b -> BOOLEAN] :
                /\ \A i \in DOMAIN b : codes[i] => b[i] \in Grantable
                /\ broker' = broker \cup {b[i] : i \in {j \in DOMAIN b : codes[j]}}
                /\ inbox' = Append(inbox, SubAck(p.id, b, codes))
        \/ /\ p.ty = "Unsubscribe"
           /\ broker' = broker \ Range(b)
           /\ inbox' = Append(inbox, UnsubAck(p.id, b))
  /\ outbox' = Tail(outbox)
  /\ UNCHANGED <<link, client, losses>>

BrokerPublishes ==
  /\ link = "open" /\ Len(inbox) < MaxInbox
  /\ \E f \in broker, n \in Names :
       n \in CoveredBy[f] /\ inbox' = Append(inbox, Publish(n))
  /\ UNCHANGED <<link, client, outbox, broker, losses>>

Break ==
  /\ link = "open" /\ losses < MaxLosses
  /\ link' = "broken" /\ losses' = losses + 1
  /\ outbox' = <<>> /\ inbox' = <<>>
  /\ UNCHANGED <<client, broker>>

\* PingTimeout takes the status away from Connected.
NoticeBreak == link = "broken" /\ link' = "down" /\ UNCHANGED <<client, net, broker, losses>>

\* A Connect that the broker accepts.
Reconnect ==
  /\ link = "down" /\ link' = "open"
  /\ broker' = IF Clean THEN {} ELSE broker
  /\ UNCHANGED <<client, net, losses>>

\* The counter is assumed not to come round to an identifier in flight.
Next ==
  \/ \E c \in Calls, b \in Batches, kind \in Kinds :
       WireId \notin InFlight /\ (Request(kind, c, b) \/ RequestFails(kind, c, b))
  \/ \E c \in Calls : RefuseRequest(c)
  \/ Receive
  \/ BrokerAnswers \/ BrokerPublishes
  \/ Break \/ NoticeBreak \/ Reconnect

Spec == Init /\ [][Next]_vars

\* The reactor delivers what the stream has, and the broker answers.
FairSpec == Spec /\ WF_vars(Receive) /\ WF_vars(BrokerAnswers)

-----------------------------------------------------------------------------
(* Properties.                                                             *)

\* A call that waits has its sender in the table, under one key: nobody
\* waits for a packet that no handler would answer him for, and no packet
\* answers him twice.
WaitingIsTracked ==
  \A c \in Calls : answer[c] = "waiting" =>
    \E k \in DOMAIN oneTime : /\ oneTime[k].call = c
                              /\ \A l \in DOMAIN oneTime : oneTime[l].call = c => l = k

\* A SUBACK or UNSUBACK that arrives finds the request it answers, with the
\* filters the broker looked at, although identifiers are used again and
\* requests of a lost connection stay in the table.
Kind(p) == IF p.ty = "SubAck" THEN "Subscribe" ELSE "Unsubscribe"

AckFindsRequest ==
  \A i \in DOMAIN inbox : inbox[i].ty # "Publish" =>
    LET p == inbox[i]
        key == <<Kind(p), p.id>>
    IN /\ key \in DOMAIN oneTime
       /\ oneTime[key].batch = p.batch
       /\ answer[oneTime[key].call] = "waiting"

\* A call that waits loses its answer in two ways and no other: after a lost
\* connection another request takes the identifier of its own, which nobody
\* will answer any more (outbound_handlers.rs:30), or the broker granted a
\* filter of its batch that TopicFilter refuses (inbound_handlers.rs:41).
Displaces(key, c) == oneTime[key].call = c /\ key \in DOMAIN oneTime' /\ oneTime'[key].call # c

RefusesGranted(p, c) ==
  /\ p.ty = "SubAck" /\ oneTime[<<"Subscribe", p.id>>].call = c
  /\ \E i \in DOMAIN p.batch : p.codes[i] /\ ~from_string(p.batch[i])

LostOnlyToReuseOrRefusal ==
  [][\A c \in Calls : answer[c] = "waiting" /\ answer'[c] = "lost" =>
       \/ losses > 0 /\ \E key \in DOMAIN oneTime : Displaces(key, c)
       \/ Receive /\ RefusesGranted(Head(inbox), c)]_vars

\* A message the broker sends because of a subscription is copied to a
\* stream: the acknowledgements before it have brought the table up to date,
\* and those after it have not touched it yet (inbound_handlers.rs:99).  Only
\* a name with an empty level gets lost, as + takes one character at least
\* (topic_filter.rs:27).
NothingFallsThrough ==
  [][Receive /\ Head(inbox).ty = "Publish" =>
       heard' # {} \/ Head(inbox).name \in WithEmptyLevel]_vars

\* A message does not reach the stream of a filter that does not cover its
\* name, except where the filter ends in a #, whose slash the expression makes
\* optional (topic_filter.rs:29): the broker sent it for another filter.
OnlyHashOverhears ==
  [][Receive /\ Head(inbox).ty = "Publish" =>
       \A f \in DOMAIN subscriptions :
         subscriptions[f] \in heard' =>
           f \in WithHash \/ Head(inbox).name \in CoveredBy[f]]_vars

\* When nothing is on the stream the loop and the broker agree on what the
\* client is subscribed to; after a loss the loop may keep more.
TablesAgree ==
  link = "open" /\ outbox = <<>> /\ inbox = <<>> =>
    /\ broker \subseteq DOMAIN subscriptions
    /\ losses = 0 => broker = DOMAIN subscriptions

\* The reading end of each stream in the table went to a caller.
NoOrphanStreams == \A f \in DOMAIN subscriptions : answer[subscriptions[f][1]] = "ok"

\* While the connection lasts, each request is answered.
RequestsResolve ==
  \A c \in Calls : answer[c] = "waiting" ~> answer[c] # "waiting" \/ losses > 0

=============================================================================
