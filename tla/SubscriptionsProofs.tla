------------------------- MODULE SubscriptionsProofs -------------------------
(***************************************************************************)
(* Callers of subscribe and unsubscribe stay tracked, acknowledgements     *)
(* find the request they answer, the table follows the broker, and a       *)
(* message is copied to the streams it is for, for all constants.          *)
(*                                                                         *)
(* The invariants stand on each other: the table of requests (IInv), the   *)
(* streams (Streams), types (Types), what the packets under way mean       *)
(* (Traffic), that no request is lost before a connection is (Unlost),     *)
(* and, with filters that TopicFilter accepts, what the table will be      *)
(* (Agree).                                                                *)
(***************************************************************************)
EXTENDS Subscriptions, WellFoundedInduction, TLAPS

\* WaitingIsTracked alone is not inductive: a request would make a call wait
\* that an old entry of the table could name too.
Named == \A k \in DOMAIN oneTime : answer[oneTime[k].call] # "idle"

Table ==
  /\ answer \in [Calls -> {"idle", "waiting", "ok", "error", "lost"}]
  /\ oneTime \in [DOMAIN oneTime -> Requests]

IInv == Table /\ Named /\ WaitingIsTracked

USE DEF IInv, Table, Named, WaitingIsTracked, Requests

\* The tables and the answers are all that IInv is about.
LEMMA Undisturbed == IInv /\ UNCHANGED <<oneTime, answer>> => IInv'
  OBVIOUS

\* A call fails before it is in the table.
LEMMA CallFails ==
  ASSUME IInv, NEW c \in Calls, answer[c] = "idle",
         answer' = [answer EXCEPT ![c] = "error"], UNCHANGED oneTime
  PROVE  IInv'
  OBVIOUS

\* Request::handle: the call that is displaced gets its answer with it.
LEMMA RequestStep ==
  ASSUME IInv, NEW c \in Calls, NEW b \in Batches, NEW kind \in Kinds, Request(kind, c, b)
  PROVE  IInv'
<1> DEFINE key == <<kind, WireId>>
           v == IF link = "open" THEN "waiting" ELSE "error"
<1>1. /\ oneTime' = [k \in DOMAIN oneTime \cup {key} |->
                       IF k = key THEN [call |-> c, batch |-> b] ELSE oneTime[k]]
      /\ answer' = [Answer(Displaced(key), "lost") EXCEPT ![c] = v]
      /\ answer[c] = "idle"
  BY DEF Request, Insert
<1>2. /\ DOMAIN oneTime' = DOMAIN oneTime \cup {key}
      /\ oneTime'[key] = [call |-> c, batch |-> b]
      /\ \A k \in DOMAIN oneTime \ {key} : oneTime'[k] = oneTime[k]
  BY <1>1
<1>3. /\ answer'[c] = v
      /\ \A d \in Calls \ {c} :
           answer'[d] = IF d \in Displaced(key) /\ answer[d] = "waiting"
                        THEN "lost" ELSE answer[d]
  BY <1>1 DEF Answer
<1>4. Table'
  BY <1>1, <1>2 DEF Answer
<1>5. Named'
  BY <1>2, <1>3
<1>6. WaitingIsTracked'
  <2> SUFFICES ASSUME NEW d \in Calls, answer'[d] = "waiting"
               PROVE  \E k \in DOMAIN oneTime' :
                        /\ oneTime'[k].call = d
                        /\ \A l \in DOMAIN oneTime' : oneTime'[l].call = d => l = k
    OBVIOUS
  <2>1. CASE d = c
    <3>1. oneTime'[key].call = c
      BY <1>2
    <3>2. \A l \in DOMAIN oneTime' : oneTime'[l].call = c => l = key
      BY <1>1, <1>2
    <3> QED
      BY <2>1, <3>1, <3>2, <1>2
  <2>2. CASE d # c
    <3>1. answer[d] = "waiting" /\ d \notin Displaced(key)
      BY <2>2, <1>3
    <3>2. PICK k \in DOMAIN oneTime :
            /\ oneTime[k].call = d
            /\ \A l \in DOMAIN oneTime : oneTime[l].call = d => l = k
      BY <3>1
    <3>3. k # key
      BY <3>1, <3>2 DEF Displaced
    <3> QED
      BY <2>2, <3>2, <3>3, <1>2
  <2> QED
    BY <2>1, <2>2
<1> QED
  BY <1>4, <1>5, <1>6

\* SUBACK and UNSUBACK: the call leaves the table with its answer.
LEMMA CallIsAnswered ==
  ASSUME IInv, NEW key \in DOMAIN oneTime, NEW v \in {"ok", "lost"},
         oneTime' = Without(oneTime, {key}),
         answer' = Answer({oneTime[key].call}, v)
  PROVE  IInv'
<1>1. /\ DOMAIN oneTime' = DOMAIN oneTime \ {key}
      /\ \A k \in DOMAIN oneTime' : oneTime'[k] = oneTime[k]
  BY DEF Without
<1>2. Table'
  BY <1>1 DEF Answer, Without
<1>3. Named'
  <2> SUFFICES ASSUME NEW k \in DOMAIN oneTime' PROVE answer'[oneTime'[k].call] # "idle"
    OBVIOUS
  <2>1. k \in DOMAIN oneTime /\ oneTime'[k] = oneTime[k] /\ oneTime[k].call \in Calls
    BY <1>1
  <2> QED
    BY <2>1 DEF Answer
<1>4. WaitingIsTracked'
  <2> SUFFICES ASSUME NEW d \in Calls, answer'[d] = "waiting"
               PROVE  \E k \in DOMAIN oneTime' :
                        /\ oneTime'[k].call = d
                        /\ \A l \in DOMAIN oneTime' : oneTime'[l].call = d => l = k
    OBVIOUS
  <2>1. answer[d] = "waiting" /\ d # oneTime[key].call
    <3>1. answer'[d] = IF d = oneTime[key].call /\ answer[d] = "waiting" THEN v ELSE answer[d]
      BY DEF Answer
    <3>2. v # "waiting"
      OBVIOUS
    <3> QED
      BY <3>1, <3>2
  <2>2. PICK k \in DOMAIN oneTime :
          /\ oneTime[k].call = d
          /\ \A l \in DOMAIN oneTime : oneTime[l].call = d => l = k
    <3> HIDE DEF Requests, Table, Named
    <3> QED
      BY <2>1, Zenon
  <2>3. k # key
    BY <2>1, <2>2
  <2>4. k \in DOMAIN oneTime' /\ oneTime'[k] = oneTime[k]
    BY <2>3, <1>1
  <2>5. \A l \in DOMAIN oneTime' : oneTime'[l].call = d => l = k
    BY <2>2, <1>1
  <2>6. oneTime'[k].call = d
    BY <2>2, <2>4
  <2> HIDE DEF Requests, Table, Named
  <2> QED
    BY <2>4, <2>5, <2>6, Zenon
<1> QED
  BY <1>2, <1>3, <1>4

\* Packets that are no acknowledgement of a known request change nothing here.
LEMMA ReceiveStep == IInv /\ Receive => IInv'
<1> SUFFICES ASSUME IInv, Receive PROVE IInv'
  OBVIOUS
<1> DEFINE p == Head(inbox)
<1>1. CASE sub_ack_handler(p)
  BY <1>1, CallIsAnswered DEF sub_ack_handler
<1>2. CASE unsub_ack_handler(p)
  BY <1>2, CallIsAnswered DEF unsub_ack_handler
<1>3. CASE UnexpectedResponse(p) \/ publish_handler(p)
  BY <1>3, Undisturbed DEF UnexpectedResponse, publish_handler
<1> QED
  BY <1>1, <1>2, <1>3 DEF Receive

\* Every step of Next keeps IInv.
LEMMA Inductive == Spec => []IInv
<1>1. Init => IInv
  BY DEF Init
<1>2. IInv /\ [Next]_vars => IInv'
  <2> SUFFICES ASSUME IInv, [Next]_vars PROVE IInv'
    OBVIOUS
  <2>1. ASSUME NEW c \in Calls, NEW b \in Batches, NEW kind \in Kinds,
               Request(kind, c, b) \/ RequestFails(kind, c, b)
        PROVE  IInv'
    BY <2>1, RequestStep, CallFails DEF RequestFails
  <2>2. ASSUME NEW c \in Calls, RefuseRequest(c) PROVE IInv'
    BY <2>2, CallFails DEF RefuseRequest
  <2>3. CASE BrokerAnswers \/ BrokerPublishes \/ Break \/ NoticeBreak \/ Reconnect \/ UNCHANGED vars
    BY <2>3, Undisturbed
    DEF BrokerAnswers, BrokerPublishes, Break, NoticeBreak, Reconnect, client, vars
  <2> QED
    BY <2>1, <2>2, <2>3, ReceiveStep DEF Next
<1> QED
  BY <1>1, <1>2, PTL DEF Spec

\* A subscribe or unsubscribe call that waits has its sender in one_time
\* under exactly one key, however identifiers are used again, connections
\* are lost and sends fail (outbound_handlers.rs:30, inbound_handlers.rs:26).
THEOREM WaitersAreTracked == Spec => []WaitingIsTracked
<1>1. IInv => WaitingIsTracked
  OBVIOUS
<1> QED
  BY <1>1, Inductive, PTL

-----------------------------------------------------------------------------
(* The streams.                                                            *)

HIDE DEF IInv, Table, Named, WaitingIsTracked, Requests

\* A call has one request in the table at most.
Alone ==
  \A k, l \in DOMAIN oneTime : oneTime[k].call = oneTime[l].call => k = l

\* A stream feeds from one filter, and its call has left the table for ever.
Fed ==
  /\ DOMAIN subscriptions \subseteq Filters
  /\ subscriptions \in [DOMAIN subscriptions -> SubscriptionStreams]
  /\ \A f \in DOMAIN subscriptions :
       /\ answer[subscriptions[f][1]] # "idle"
       /\ \A k \in DOMAIN oneTime : oneTime[k].call # subscriptions[f][1]
  /\ \A f, g \in DOMAIN subscriptions : subscriptions[f] = subscriptions[g] => f = g

Streams == IInv /\ Alone /\ Fed

\* Some place in a batch is the last.
LEMMA LastPlace ==
  ASSUME NEW n \in Nat, NEW T, T \subseteq 1..n, T # {}
  PROVE  \E i \in T : \A j \in T : j <= i
<1> DEFINE U == {n - i : i \in T}
           Less == {p \in Nat \X Nat : p[1] < p[2]}
<1>1. IsWellFoundedOn(Less, Nat)
  BY NatLessThanWellFounded DEF OpToRel
<1>2. \A i \in T : n - i \in Nat
  OBVIOUS
<1>3. U \subseteq Nat /\ U # {}
  BY <1>2
<1>4. PICK x \in U : \A y \in U : ~ (<<y, x>> \in Less)
  <2> HIDE DEF U, Less
  <2> QED
    BY <1>1, <1>3, WFMin
<1>5. PICK i \in T : x = n - i
  BY <1>4
<1>6. \A j \in T : j <= i
  <2> TAKE j \in T
  <2>1. n - j \in U /\ n - j \in Nat /\ n - i \in Nat /\ j \in Nat /\ i \in Nat
    OBVIOUS
  <2>2. ~ (n - j < n - i)
    BY <1>4, <1>5, <2>1
  <2> QED
    BY <2>1, <2>2
<1> QED
  BY <1>6

\* A filter of the table keeps its stream or gets that of a place that names it.
LEMMA SubscribedFeeds ==
  ASSUME NEW c, NEW b \in Batches, NEW R, R \subseteq DOMAIN b,
         NEW f \in DOMAIN Subscribed(c, b, R)
  PROVE  \/ \E i \in R : b[i] = f /\ Subscribed(c, b, R)[f] = <<c, i>>
         \/ /\ f \in DOMAIN subscriptions
            /\ Subscribed(c, b, R)[f] = subscriptions[f]
<1> DEFINE T == {i \in R : b[i] = f}
<1>1. PICK n \in Nat : b \in [1..n -> Filters]
  BY DEF Batches
<1>2. CASE T # {}
  <2>1. \E i \in T : \A j \in T : j <= i
    BY <1>1, <1>2, LastPlace
  <2> DEFINE last == CHOOSE i \in R : b[i] = f /\ \A j \in R : b[j] = f => j <= i
  <2>2. last \in R /\ b[last] = f
    BY <2>1
  <2>3. Subscribed(c, b, R)[f] = <<c, last>>
    BY <2>2 DEF Subscribed
  <2> QED
    BY <2>2, <2>3
<1>3. CASE T = {}
  BY <1>3 DEF Subscribed
<1> QED
  BY <1>2, <1>3

\* No answer is taken back.
LEMMA AnsweredStay ==
  ASSUME IInv, NEW M, NEW v, v # "idle", answer' = Answer(M, v),
         NEW c \in Calls, answer[c] # "idle"
  PROVE  answer'[c] # "idle"
  BY DEF Answer

\* What a step that leaves the table of requests alone has to keep.
LEMMA StreamsStay ==
  ASSUME Streams, IInv', UNCHANGED <<oneTime, subscriptions>>,
         \A c \in Calls : answer[c] # "idle" => answer'[c] # "idle"
  PROVE  Streams'
<1>1. \A f \in DOMAIN subscriptions : subscriptions[f][1] \in Calls
  BY DEF Streams, Fed, SubscriptionStreams
<1> QED
  BY <1>1 DEF Streams, Alone, Fed

\* The caller of a request had no entry and no stream before.
LEMMA RequestKeepsStreams ==
  ASSUME Streams, NEW c \in Calls, NEW b \in Batches, NEW kind \in Kinds, Request(kind, c, b)
  PROVE  Streams'
<1> DEFINE key == <<kind, WireId>>
<1>1. IInv'
  BY RequestStep DEF Streams
<1>2. /\ DOMAIN oneTime' = DOMAIN oneTime \cup {key}
      /\ oneTime'[key] = [call |-> c, batch |-> b]
      /\ \A k \in DOMAIN oneTime \ {key} : oneTime'[k] = oneTime[k]
      /\ answer[c] = "idle" /\ subscriptions' = subscriptions
  BY DEF Request, Insert
<1>3. \A k \in DOMAIN oneTime : oneTime[k].call # c
  BY <1>2 DEF Streams, IInv, Named
<1>4. \A k \in DOMAIN oneTime' : k = key \/ (k \in DOMAIN oneTime /\ oneTime'[k] = oneTime[k])
  BY <1>2
<1>5. Alone'
  BY <1>2, <1>3, <1>4 DEF Alone, Streams
<1>6. \A d \in Calls : answer[d] # "idle" => answer'[d] # "idle"
  BY DEF Request, Answer, Streams, IInv, Table
<1>7. \A f \in DOMAIN subscriptions :
        subscriptions[f][1] \in Calls /\ subscriptions[f][1] # c
  BY <1>2 DEF Streams, Fed, SubscriptionStreams
<1>8. \A f \in DOMAIN subscriptions :
        /\ answer'[subscriptions[f][1]] # "idle"
        /\ \A k \in DOMAIN oneTime' : oneTime'[k].call # subscriptions[f][1]
  BY <1>2, <1>4, <1>6, <1>7 DEF Streams, Fed
<1>9. Fed'
  BY <1>2, <1>8 DEF Streams, Fed
<1> QED
  BY <1>1, <1>5, <1>9 DEF Streams

\* An acknowledgement takes the call out of the table with its request.
LEMMA RequestLeaves ==
  ASSUME Streams, NEW key \in DOMAIN oneTime, oneTime' = Without(oneTime, {key})
  PROVE  /\ Alone'
         /\ \A k \in DOMAIN oneTime' :
              /\ k \in DOMAIN oneTime /\ oneTime'[k] = oneTime[k]
              /\ oneTime'[k].call # oneTime[key].call
<1>1. \A k \in DOMAIN oneTime' : k # key /\ k \in DOMAIN oneTime /\ oneTime'[k] = oneTime[k]
  BY DEF Without
<1> QED
  BY <1>1 DEF Streams, Alone

\* SUBACK: the streams of a call are told apart by their places.
LEMMA SubAckKeepsStreams ==
  ASSUME Streams, NEW p, sub_ack_handler(p)
  PROVE  Streams'
<1> DEFINE key == <<"Subscribe", p.id>>
           c == oneTime[key].call
           b == oneTime[key].batch
           R == Reached(b, p.codes)
           S == Subscribed(c, b, R)
           v == IF R = {i \in DOMAIN b : p.codes[i]} THEN "ok" ELSE "lost"
<1>1. /\ key \in DOMAIN oneTime /\ oneTime' = Without(oneTime, {key})
      /\ subscriptions' = S /\ answer' = Answer({c}, v)
  BY DEF sub_ack_handler
<1>2. IInv'
  BY <1>1, CallIsAnswered DEF Streams
<1>3. c \in Calls /\ b \in Batches /\ answer[c] # "idle"
  BY <1>1 DEF Streams, IInv, Table, Named, Requests
<1>4. R \subseteq DOMAIN b
  BY DEF Reached
<1>5. \A f \in DOMAIN S : \/ \E i \in R : b[i] = f /\ S[f] = <<c, i>>
                          \/ (f \in DOMAIN subscriptions /\ S[f] = subscriptions[f])
  BY <1>3, <1>4, SubscribedFeeds
<1>6. \A i \in R : <<c, i>> \in SubscriptionStreams /\ b[i] \in Filters
  <2>1. PICK n \in 1..MaxBatch : b \in [1..n -> Filters]
    BY <1>3 DEF Batches
  <2>2. \A i \in 1..n : i \in 1..MaxBatch
    BY SubscriptionsAssumption
  <2>3. R \subseteq 1..n
    BY <2>1, <1>4
  <2> QED
    BY <2>1, <2>2, <2>3, <1>3 DEF SubscriptionStreams
<1>7. \A f \in DOMAIN subscriptions : subscriptions[f][1] # c /\ subscriptions[f][1] \in Calls
  BY <1>1 DEF Streams, Fed, SubscriptionStreams
<1>8. \A d \in Calls : answer[d] # "idle" => answer'[d] # "idle"
  BY <1>1, AnsweredStay DEF Streams
<1>9. Alone' /\ \A k \in DOMAIN oneTime' :
        k \in DOMAIN oneTime /\ oneTime'[k] = oneTime[k] /\ oneTime'[k].call # c
  BY <1>1, RequestLeaves
<1> HIDE DEF R, S, v, c, b
<1>10. DOMAIN S \subseteq Filters /\ \A f \in DOMAIN S : S[f] \in SubscriptionStreams
  BY <1>5, <1>6 DEF Streams, Fed
<1>11. S = [f \in DOMAIN S |-> S[f]]
  BY DEF S, Subscribed
<1>12. \A f \in DOMAIN S :
         answer'[S[f][1]] # "idle" /\ \A k \in DOMAIN oneTime' : oneTime'[k].call # S[f][1]
  BY <1>3, <1>5, <1>7, <1>8, <1>9 DEF Streams, Fed
<1>13. ASSUME NEW f \in DOMAIN S, NEW g \in DOMAIN S, S[f] = S[g] PROVE f = g
  BY <1>5, <1>7, <1>13 DEF Streams, Fed
<1>14. Fed'
  BY <1>1, <1>10, <1>11, <1>12, <1>13 DEF Fed
<1> QED
  BY <1>2, <1>9, <1>14 DEF Streams

\* UNSUBACK: streams only leave the table.
LEMMA UnsubAckKeepsStreams ==
  ASSUME Streams, NEW p, unsub_ack_handler(p)
  PROVE  Streams'
<1> DEFINE key == <<"Unsubscribe", p.id>>
           c == oneTime[key].call
<1>1. /\ key \in DOMAIN oneTime /\ oneTime' = Without(oneTime, {key})
      /\ subscriptions' = Without(subscriptions, Range(oneTime[key].batch))
      /\ answer' = Answer({c}, "ok")
  BY DEF unsub_ack_handler
<1>2. IInv'
  BY <1>1, CallIsAnswered DEF Streams
<1>3. \A d \in Calls : answer[d] # "idle" => answer'[d] # "idle"
  BY <1>1, AnsweredStay DEF Streams
<1>4. Alone' /\ \A k \in DOMAIN oneTime' : k \in DOMAIN oneTime /\ oneTime'[k] = oneTime[k]
  BY <1>1, RequestLeaves
<1>5. /\ \A f \in DOMAIN subscriptions' :
           f \in DOMAIN subscriptions /\ subscriptions'[f] = subscriptions[f]
      /\ subscriptions' = [f \in DOMAIN subscriptions' |-> subscriptions'[f]]
  BY <1>1 DEF Without
<1>6. \A f \in DOMAIN subscriptions : subscriptions[f][1] \in Calls
  BY DEF Streams, Fed, SubscriptionStreams
<1>7. Fed'
  BY <1>3, <1>4, <1>5, <1>6 DEF Streams, Fed
<1> QED
  BY <1>2, <1>4, <1>7 DEF Streams

\* Every step keeps the streams apart.
LEMMA StreamsInductive == Spec => []Streams
<1>1. Init => Streams
  BY DEF Init, Streams, IInv, Table, Named, WaitingIsTracked, Alone, Fed
<1>2. Streams /\ IInv' /\ [Next]_vars => Streams'
  <2> SUFFICES ASSUME Streams, IInv', [Next]_vars PROVE Streams'
    OBVIOUS
  <2>1. ASSUME NEW c \in Calls, NEW b \in Batches, NEW kind \in Kinds, Request(kind, c, b)
        PROVE  Streams'
    BY <2>1, RequestKeepsStreams
  <2>2. ASSUME NEW c \in Calls, NEW b \in Batches, NEW kind \in Kinds, RequestFails(kind, c, b)
        PROVE  Streams'
    <3>1. \A d \in Calls : answer[d] # "idle" => answer'[d] # "idle"
      BY <2>2 DEF RequestFails, Streams, IInv, Table
    <3> QED
      BY <2>2, <3>1, StreamsStay DEF RequestFails
  <2>3. ASSUME NEW c \in Calls, RefuseRequest(c) PROVE Streams'
    <3>1. \A d \in Calls : answer[d] # "idle" => answer'[d] # "idle"
      BY <2>3 DEF RefuseRequest, Streams, IInv, Table
    <3> QED
      BY <2>3, <3>1, StreamsStay DEF RefuseRequest
  <2>4. CASE Receive
    <3> DEFINE p == Head(inbox)
    <3>1. CASE UnexpectedResponse(p) \/ publish_handler(p)
      BY <3>1, StreamsStay DEF UnexpectedResponse, publish_handler
    <3> QED
      BY <2>4, <3>1, SubAckKeepsStreams, UnsubAckKeepsStreams DEF Receive
  <2>5. CASE BrokerAnswers \/ BrokerPublishes \/ Break \/ NoticeBreak \/ Reconnect \/ UNCHANGED vars
    BY <2>5, StreamsStay
    DEF BrokerAnswers, BrokerPublishes, Break, NoticeBreak, Reconnect, client, vars
  <2> QED
    BY <2>1, <2>2, <2>3, <2>4, <2>5 DEF Next
<1> QED
  BY <1>1, <1>2, Inductive, PTL DEF Spec

\* If TopicFilter is exact for the filters that end in no #, which
\* NothingIsMissed and OnlyHashIsLoose say of it, then no stream hears a
\* message its own filter does not cover, but for those filters: no two
\* filters ever feed the same stream (inbound_handlers.rs:42, 99).
THEOREM HashesOverhear ==
  ASSUME \A f \in Filters \ WithHash : MatchedBy[f] \subseteq CoveredBy[f]
  PROVE  Spec => OnlyHashOverhears
<1> DEFINE Apart ==
      Receive /\ Head(inbox).ty = "Publish" =>
        \A f \in DOMAIN subscriptions :
          subscriptions[f] \in heard' => f \in WithHash \/ Head(inbox).name \in CoveredBy[f]
<1>1. Streams /\ [Next]_vars => [Apart]_vars
  <2> SUFFICES ASSUME Streams, Receive, Head(inbox).ty = "Publish",
                      NEW f \in DOMAIN subscriptions, subscriptions[f] \in heard'
               PROVE  f \in WithHash \/ Head(inbox).name \in CoveredBy[f]
    OBVIOUS
  <2>1. CASE publish_handler(Head(inbox))
    <3>1. PICK g \in DOMAIN subscriptions :
            Head(inbox).name \in MatchedBy[g] /\ subscriptions[f] = subscriptions[g]
      BY <2>1 DEF publish_handler, match_with
    <3>2. f = g /\ f \in Filters
      BY <3>1 DEF Streams, Fed
    <3> QED
      BY <3>1, <3>2
  <2> QED
    BY <2>1 DEF Receive
<1> QED
  BY <1>1, StreamsInductive, PTL DEF Spec, OnlyHashOverhears

-----------------------------------------------------------------------------
(* Types.                                                                  *)

Asked == [ty : Kinds, id : Nat, batch : Batches]

Types ==
  /\ link \in {"open", "broken", "down"}
  /\ nextPacketId \in Nat
  /\ DOMAIN oneTime \subseteq Kinds \X (0..IdSpace - 1)
  /\ heard \subseteq SubscriptionStreams
  /\ outbox \in Seq(Asked)
  /\ broker \subseteq Filters
  /\ losses \in 0..MaxLosses

\* The requests of the table and the packets to the broker have a type.
LEMMA RequestTypes ==
  ASSUME Types, NEW c \in Calls, NEW b \in Batches, NEW kind \in Kinds, Request(kind, c, b)
  PROVE  Types'
<1>1. WireId \in 0..IdSpace - 1 /\ WireId \in Nat
  BY SubscriptionsAssumption DEF Types, WireId
<1>2. DOMAIN oneTime' = DOMAIN oneTime \cup {<<kind, WireId>>}
  BY DEF Request, Insert
<1>3. [ty |-> kind, id |-> WireId, batch |-> b] \in Asked
  BY <1>1 DEF Asked
<1>4. outbox' \in Seq(Asked)
  BY <1>3 DEF Request, Types
<1>5. nextPacketId' \in Nat
  BY DEF Request, gen_packet_id, Types
<1> QED
  BY <1>1, <1>2, <1>4, <1>5 DEF Request, Types

\* What the loop receives.
LEMMA ReceiveTypes ==
  ASSUME Types, Fed, Receive
  PROVE  Types'
<1> DEFINE p == Head(inbox)
<1>1. DOMAIN oneTime' \subseteq DOMAIN oneTime
  BY DEF Receive, sub_ack_handler, unsub_ack_handler, UnexpectedResponse, publish_handler, Without
<1>2. heard' \subseteq SubscriptionStreams
  <2>1. \A f \in DOMAIN subscriptions : subscriptions[f] \in SubscriptionStreams
    BY DEF Fed
  <2> QED
    BY <2>1 DEF Receive, sub_ack_handler, unsub_ack_handler, UnexpectedResponse,
                publish_handler, Types
<1> QED
  BY <1>1, <1>2 DEF Receive, Types

\* What the broker grants was asked for.
LEMMA BrokerTypes ==
  ASSUME Types, BrokerAnswers
  PROVE  Types'
<1> DEFINE p == Head(outbox)
           b == p.batch
<1>1. p \in Asked /\ Tail(outbox) \in Seq(Asked)
  BY DEF BrokerAnswers, Types
<1>2. \A i \in DOMAIN b : b[i] \in Filters
  BY <1>1 DEF Asked, Batches
<1>3. broker' \subseteq Filters
  BY <1>2 DEF BrokerAnswers, Types
<1> QED
  BY <1>1, <1>3 DEF BrokerAnswers, Types, client

\* Every step keeps Types.
LEMMA TypesHold == Spec => []Types
<1>1. Init => Types
  BY SubscriptionsAssumption DEF Init, Types
<1>2. Types /\ Streams /\ [Next]_vars => Types'
  <2> SUFFICES ASSUME Types, Streams, [Next]_vars PROVE Types'
    OBVIOUS
  <2>1. ASSUME NEW c \in Calls, NEW b \in Batches, NEW kind \in Kinds,
               Request(kind, c, b) \/ RequestFails(kind, c, b)
        PROVE  Types'
    <3>1. CASE RequestFails(kind, c, b)
      BY <3>1 DEF RequestFails, gen_packet_id, net, Types
    <3> QED
      BY <2>1, <3>1, RequestTypes
  <2>2. ASSUME NEW c \in Calls, RefuseRequest(c) PROVE Types'
    BY <2>2 DEF RefuseRequest, net, Types
  <2>3. CASE Receive
    BY <2>3, ReceiveTypes DEF Streams
  <2>4. CASE BrokerAnswers
    BY <2>4, BrokerTypes
  <2>5. CASE BrokerPublishes \/ NoticeBreak \/ Reconnect \/ UNCHANGED vars
    BY <2>5 DEF BrokerPublishes, NoticeBreak, Reconnect, client, net, vars, Types
  <2>6. CASE Break
    BY <2>6, SubscriptionsAssumption DEF Break, client, Types
  <2> QED
    BY <2>1, <2>2, <2>3, <2>4, <2>5, <2>6 DEF Next
<1> QED
  BY <1>1, <1>2, StreamsInductive, PTL DEF Spec

\* Tables, streams and counters keep their types, whatever filters, batches
\* and losses there are.
THEOREM TypeCorrect == Spec => []TypeOK
<1>1. Types /\ Streams => TypeOK
  BY DEF Types, Streams, IInv, Table, Fed, TypeOK
<1> QED
  BY <1>1, TypesHold, StreamsInductive, PTL

-----------------------------------------------------------------------------
(* Acknowledgements find their requests.                                   *)

Told ==
  [ty : {"SubAck"}, id : Nat, batch : Batches, codes : UNION {[1..n -> BOOLEAN] : n \in Nat}]
    \cup [ty : {"UnsubAck"}, id : Nat, batch : Batches]
    \cup [ty : {"Publish"}, name : Names]

IsAck(p) == p.ty # "Publish"

\* The request of the table that a packet is, or answers.
Pending(key, b) ==
  /\ key \in DOMAIN oneTime
  /\ oneTime[key].batch = b
  /\ answer[oneTime[key].call] = "waiting"

AllPending ==
  /\ \A i \in 1..Len(outbox) : Pending(<<outbox[i].ty, outbox[i].id>>, outbox[i].batch)
  /\ \A i \in 1..Len(inbox) : IsAck(inbox[i]) =>
       Pending(<<Kind(inbox[i]), inbox[i].id>>, inbox[i].batch)

\* No identifier is on the stream twice.
Unique ==
  /\ \A i, j \in 1..Len(outbox) : outbox[i].id = outbox[j].id => i = j
  /\ \A i, j \in 1..Len(inbox) :
       IsAck(inbox[i]) /\ IsAck(inbox[j]) /\ inbox[i].id = inbox[j].id => i = j
  /\ \A i \in 1..Len(outbox), j \in 1..Len(inbox) :
       IsAck(inbox[j]) => outbox[i].id # inbox[j].id

Traffic == inbox \in Seq(Told) /\ AllPending /\ Unique

\* The rest of a stream, one place on.
LEMMA Rest ==
  ASSUME NEW S, NEW s \in Seq(S), s # <<>>
  PROVE  /\ Len(s) \in Nat \ {0} /\ Head(s) = s[1] /\ Head(s) \in S
         /\ Tail(s) \in Seq(S) /\ Len(Tail(s)) = Len(s) - 1
         /\ \A i \in 1..Len(s) - 1 : Tail(s)[i] = s[i + 1] /\ i + 1 \in 1..Len(s)
  OBVIOUS

\* A stream with one packet more.
LEMMA More ==
  ASSUME NEW S, NEW s \in Seq(S), NEW p \in S
  PROVE  /\ Len(s) \in Nat
         /\ Append(s, p) \in Seq(S) /\ Len(Append(s, p)) = Len(s) + 1
         /\ \A i \in 1..Len(s) : Append(s, p)[i] = s[i]
         /\ Append(s, p)[Len(s) + 1] = p
         /\ \A i \in 1..Len(s) + 1 : i \in 1..Len(s) \/ i = Len(s) + 1
  OBVIOUS

\* What the packets are, by their kinds.
LEMMA PacketKinds ==
  /\ \A p \in Told : /\ IsAck(p) => p.id \in Nat /\ p.batch \in Batches
                     /\ p.ty \in {"SubAck", "UnsubAck", "Publish"}
  /\ \A p \in Asked : p.ty \in Kinds /\ p.id \in Nat /\ p.batch \in Batches
  BY DEF Told, Asked, IsAck

\* The identifier of a new request is on no packet.
LEMMA NewId ==
  ASSUME Types, Traffic, WireId \notin InFlight
  PROVE  /\ \A i \in 1..Len(outbox) : outbox[i].id # WireId
         /\ \A i \in 1..Len(inbox) : IsAck(inbox[i]) => inbox[i].id # WireId
<1>1. \A p \in Range(outbox) \cup Range(inbox) : p.ty # "Publish" => p.id # WireId
  BY DEF InFlight
<1>2. ASSUME NEW i \in 1..Len(outbox) PROVE outbox[i] \in Range(outbox) /\ outbox[i].ty # "Publish"
  <2>1. outbox[i] \in Asked /\ i \in DOMAIN outbox
    BY DEF Types
  <2> QED
    BY <2>1 DEF Range, Asked, Kinds
<1>3. ASSUME NEW i \in 1..Len(inbox) PROVE inbox[i] \in Range(inbox)
  <2>1. i \in DOMAIN inbox
    BY DEF Traffic
  <2> QED
    BY <2>1 DEF Range
<1> QED
  BY <1>1, <1>2, <1>3 DEF IsAck

\* A request does not disturb those under other identifiers.
LEMMA RequestTraffic ==
  ASSUME Streams, Types, Traffic, NEW c \in Calls, NEW b \in Batches, NEW kind \in Kinds,
         Request(kind, c, b), WireId \notin InFlight
  PROVE  Traffic'
<1>0. PICK wid : wid = WireId
  OBVIOUS
<1> DEFINE key == <<kind, wid>>
           q == [ty |-> kind, id |-> wid, batch |-> b]
<1>1. /\ \A i \in 1..Len(outbox) : outbox[i].id # wid
      /\ \A i \in 1..Len(inbox) : IsAck(inbox[i]) => inbox[i].id # wid
  BY <1>0, NewId
<1>2. /\ DOMAIN oneTime' = DOMAIN oneTime \cup {key}
      /\ oneTime'[key] = [call |-> c, batch |-> b]
      /\ \A k \in DOMAIN oneTime \ {key} : oneTime'[k] = oneTime[k]
      /\ answer[c] = "idle" /\ inbox' = inbox
  BY <1>0 DEF Request, Insert
<1>3. /\ answer'[c] = IF link = "open" THEN "waiting" ELSE "error"
      /\ \A d \in Calls \ {c} : d \notin Displaced(key) => answer'[d] = answer[d]
  BY <1>0 DEF Request, Answer, Streams, IInv, Table
<1>4. ASSUME NEW ty, NEW id, NEW p, Pending(<<ty, id>>, p), id # wid
      PROVE  Pending(<<ty, id>>, p)'
  <2> DEFINE k == <<ty, id>>
  <2>1. k \in DOMAIN oneTime \ {key} /\ oneTime[k].call \in Calls /\ oneTime[k].call # c
    BY <1>2, <1>4 DEF Pending, Streams, IInv, Table, Requests
  <2>2. oneTime[k].call \notin Displaced(key)
    BY <2>1 DEF Displaced, Streams, Alone
  <2>3. answer'[oneTime[k].call] = "waiting"
    BY <1>3, <1>4, <2>1, <2>2 DEF Pending
  <2> QED
    BY <1>2, <1>4, <2>1, <2>3 DEF Pending
<1>5. CASE link # "open"
  <2>1. outbox' = outbox
    BY <1>5 DEF Request
  <2> QED
    BY <1>1, <1>2, <1>4, <2>1 DEF Traffic, AllPending, Unique
<1>6. CASE link = "open"
  <2>1. outbox' = Append(outbox, q)
    BY <1>0, <1>6 DEF Request
  <2>2. Pending(key, b)'
    BY <1>2, <1>3, <1>6 DEF Pending
  <2>3. q \in Asked /\ outbox \in Seq(Asked)
    BY <1>0, SubscriptionsAssumption DEF Types, Asked, WireId
  <2> HIDE DEF q
  <2>4. /\ Len(outbox) \in Nat /\ Len(outbox') = Len(outbox) + 1
        /\ \A i \in 1..Len(outbox) : outbox'[i] = outbox[i]
        /\ outbox'[Len(outbox) + 1] = q
        /\ \A i \in 1..Len(outbox') : i \in 1..Len(outbox) \/ i = Len(outbox) + 1
    BY <2>1, <2>3, More
  <2>5. q.ty = kind /\ q.id = wid /\ q.batch = b
    BY DEF q
  <2>6. ASSUME NEW i \in 1..Len(outbox')
        PROVE  \/ i \in 1..Len(outbox) /\ outbox'[i] = outbox[i] /\ outbox'[i].id # wid
               \/ i = Len(outbox) + 1 /\ outbox'[i] = q
    BY <1>1, <2>4
  <2>7. AllPending'
    <3>1. ASSUME NEW i \in 1..Len(outbox')
          PROVE  Pending(<<outbox[i].ty, outbox[i].id>>, outbox[i].batch)'
      <4>1. CASE outbox'[i] = q
        BY <2>2, <2>5, <4>1 DEF Pending
      <4>2. CASE i \in 1..Len(outbox) /\ outbox'[i] = outbox[i] /\ outbox'[i].id # wid
        <5>1. PICK ty, id, r : ty = outbox[i].ty /\ id = outbox[i].id /\ r = outbox[i].batch
          OBVIOUS
        <5>2. Pending(<<ty, id>>, r)'
          BY <1>4, <4>2, <5>1 DEF Traffic, AllPending
        <5> QED
          BY <4>2, <5>1, <5>2 DEF Pending
      <4> QED
        BY <2>6, <4>1, <4>2
    <3>2. ASSUME NEW i \in 1..Len(inbox'), IsAck(inbox[i])'
          PROVE  Pending(<<Kind(inbox[i]), inbox[i].id>>, inbox[i].batch)'
      <4>1. PICK ty, id, r : ty = Kind(inbox[i]) /\ id = inbox[i].id /\ r = inbox[i].batch
        OBVIOUS
      <4>2. Pending(<<ty, id>>, r)'
        BY <1>1, <1>2, <1>4, <3>2, <4>1 DEF Traffic, AllPending, IsAck
      <4> QED
        BY <1>2, <4>1, <4>2 DEF Pending, Kind
    <3> QED
      BY <3>1, <3>2 DEF AllPending
  <2>8. Unique'
    <3>1. ASSUME NEW i \in 1..Len(outbox'), NEW j \in 1..Len(outbox'), outbox'[i].id = outbox'[j].id
          PROVE  i = j
      <4>1. i \in 1..Len(outbox) /\ j \in 1..Len(outbox) => i = j
        BY <2>6, <3>1, <2>4 DEF Traffic, Unique
      <4> QED
        BY <2>5, <2>6, <3>1, <4>1
    <3>2. ASSUME NEW i \in 1..Len(outbox'), NEW j \in 1..Len(inbox), IsAck(inbox[j])
          PROVE  outbox'[i].id # inbox[j].id
      BY <1>1, <2>5, <2>6, <3>2 DEF Traffic, Unique
    <3> QED
      BY <1>2, <3>1, <3>2 DEF Traffic, Unique
  <2> QED
    BY <1>2, <2>7, <2>8 DEF Traffic
<1> QED
  BY <1>5, <1>6

\* An acknowledgement takes away its own request.
LEMMA OthersPending ==
  ASSUME Streams, NEW k0 \in DOMAIN oneTime, NEW v,
         oneTime' = Without(oneTime, {k0}), answer' = Answer({oneTime[k0].call}, v),
         NEW key, NEW b, key # k0, Pending(key, b)
  PROVE  Pending(key, b)'
<1>1. key \in DOMAIN oneTime' /\ oneTime'[key] = oneTime[key]
  BY DEF Without, Pending
<1>2. oneTime[key].call # oneTime[k0].call /\ oneTime[key].call \in Calls
  BY DEF Pending, Streams, Alone, IInv, Table, Requests
<1> QED
  BY <1>1, <1>2 DEF Pending, Answer

\* The loop handles the first packet.
LEMMA ReceiveTraffic ==
  ASSUME Streams, Traffic, Receive
  PROVE  Traffic'
<1> DEFINE p == Head(inbox)
           key == <<Kind(p), p.id>>
<1>1. inbox \in Seq(Told) /\ inbox # <<>> /\ inbox' = Tail(inbox) /\ outbox' = outbox
  BY DEF Traffic, Receive
<1>2. /\ Len(inbox) \in Nat \ {0} /\ p = inbox[1] /\ p \in Told
      /\ inbox' \in Seq(Told) /\ Len(inbox') = Len(inbox) - 1
      /\ \A i \in 1..Len(inbox') : inbox'[i] = inbox[i + 1] /\ i + 1 \in 1..Len(inbox)
  BY <1>1, Rest
<1>3. 1 \in 1..Len(inbox) /\ \A i \in 1..Len(inbox') : i + 1 # 1
  BY <1>2
<1>4. Unique'
  <2>1. \A i, j \in 1..Len(inbox') : i + 1 = j + 1 => i = j
    OBVIOUS
  <2> QED
    BY <1>1, <1>2, <2>1 DEF Traffic, Unique
<1>5. AllPending'
  <2>1. CASE UNCHANGED <<oneTime, answer>>
    BY <1>1, <1>2, <2>1 DEF Traffic, AllPending, Pending
  <2>2. CASE IsAck(p) /\ key \in DOMAIN oneTime /\ oneTime' = Without(oneTime, {key})
             /\ \E v : answer' = Answer({oneTime[key].call}, v)
    <3>1. \A k, b : k # key /\ Pending(k, b) => Pending(k, b)'
      BY <2>2, OthersPending
    <3>2. \A i \in 1..Len(outbox) : <<outbox[i].ty, outbox[i].id>> # key
      BY <1>2, <1>3, <2>2 DEF Traffic, Unique
    <3>3. \A i \in 1..Len(inbox') : IsAck(inbox'[i]) => <<Kind(inbox'[i]), inbox'[i].id>> # key
      BY <1>2, <1>3, <2>2 DEF Traffic, Unique
    <3> QED
      BY <1>1, <1>2, <3>1, <3>2, <3>3 DEF Traffic, AllPending
  <2>3. CASE p.ty = "SubAck" /\ sub_ack_handler(p)
    BY <2>2, <2>3 DEF sub_ack_handler, IsAck, Kind
  <2>4. CASE p.ty = "UnsubAck" /\ unsub_ack_handler(p)
    BY <2>2, <2>4 DEF unsub_ack_handler, IsAck, Kind
  <2> QED
    BY <2>1, <2>3, <2>4 DEF Receive, UnexpectedResponse, publish_handler
<1> QED
  BY <1>2, <1>4, <1>5 DEF Traffic

\* The broker answers a request under its identifier.
LEMMA BrokerTraffic ==
  ASSUME Types, Traffic, BrokerAnswers
  PROVE  Traffic'
<1> DEFINE p == Head(outbox)
<1>1. UNCHANGED <<oneTime, answer>>
  BY DEF BrokerAnswers, client
<1>2. /\ Len(outbox) \in Nat \ {0} /\ p = outbox[1] /\ p \in Asked
      /\ Len(outbox') = Len(outbox) - 1
      /\ \A i \in 1..Len(outbox') : outbox'[i] = outbox[i + 1] /\ i + 1 \in 1..Len(outbox)
  BY Rest DEF BrokerAnswers, Types
<1>3. PICK a \in Told : /\ inbox' = Append(inbox, a)
                        /\ IsAck(a) /\ a.id = p.id /\ a.batch = p.batch /\ Kind(a) = p.ty
  <2>1. p.batch \in Batches /\ p.id \in Nat /\ p.ty \in Kinds
    BY <1>2, PacketKinds
  <2>2. CASE p.ty = "Subscribe"
    <3>1. PICK codes \in [DOMAIN p.batch -> BOOLEAN] :
            inbox' = Append(inbox, SubAck(p.id, p.batch, codes))
      BY <2>2 DEF BrokerAnswers
    <3>2. codes \in UNION {[1..n -> BOOLEAN] : n \in Nat}
      BY <2>1, SubscriptionsAssumption DEF Batches
    <3>3. SubAck(p.id, p.batch, codes) \in Told
      BY <2>1, <3>2 DEF SubAck, Told
    <3> QED
      BY <2>2, <3>1, <3>3 DEF SubAck, IsAck, Kind
  <2>3. CASE p.ty = "Unsubscribe"
    BY <2>1, <2>3 DEF BrokerAnswers, UnsubAck, Told, IsAck, Kind
  <2> QED
    BY <2>1, <2>2, <2>3 DEF Kinds
<1>4. /\ Len(inbox) \in Nat /\ inbox' \in Seq(Told) /\ Len(inbox') = Len(inbox) + 1
      /\ \A i \in 1..Len(inbox) : inbox'[i] = inbox[i]
      /\ inbox'[Len(inbox) + 1] = a
      /\ \A i \in 1..Len(inbox') : i \in 1..Len(inbox) \/ i = Len(inbox) + 1
  BY <1>3, More DEF Traffic
<1>5. 1 \in 1..Len(outbox) /\ \A i \in 1..Len(outbox') : i + 1 # 1
  BY <1>2
<1>6. AllPending'
  <2>1. Pending(<<Kind(a), a.id>>, a.batch)
    BY <1>2, <1>3, <1>5 DEF Traffic, AllPending
  <2>2. \A i \in 1..Len(outbox') : Pending(<<outbox[i + 1].ty, outbox[i + 1].id>>, outbox[i + 1].batch)
    BY <1>2 DEF Traffic, AllPending
  <2>3. ASSUME NEW i \in 1..Len(inbox'), IsAck(inbox'[i])
        PROVE  Pending(<<Kind(inbox'[i]), inbox'[i].id>>, inbox'[i].batch)
    <3>1. CASE i \in 1..Len(inbox)
      BY <1>4, <2>3, <3>1 DEF Traffic, AllPending
    <3>2. CASE inbox'[i] = a
      BY <2>1, <3>2
    <3> QED
      BY <1>4, <3>1, <3>2
  <2>4. \A i \in 1..Len(outbox') : Pending(<<outbox'[i].ty, outbox'[i].id>>, outbox'[i].batch)
    BY <1>2, <2>2
  <2> QED
    BY <1>1, <2>3, <2>4 DEF AllPending, Pending, Kind
<1>7. Unique'
  <2>1. \A i, j \in 1..Len(outbox') : i + 1 = j + 1 => i = j
    OBVIOUS
  <2>2. \A i, j \in 1..Len(outbox') : outbox'[i].id = outbox'[j].id => i = j
    BY <1>2, <2>1 DEF Traffic, Unique
  <2>3. \A i \in 1..Len(outbox') : outbox'[i].id # a.id
    BY <1>2, <1>3, <1>5 DEF Traffic, Unique
  <2>4. \A j \in 1..Len(inbox) : IsAck(inbox[j]) => inbox[j].id # a.id
    BY <1>2, <1>3, <1>5 DEF Traffic, Unique
  <2>5. \A i \in 1..Len(outbox'), j \in 1..Len(inbox) :
          IsAck(inbox[j]) => outbox'[i].id # inbox[j].id
    BY <1>2 DEF Traffic, Unique
  <2> QED
    BY <1>4, <2>2, <2>3, <2>4, <2>5 DEF Traffic, Unique
<1> QED
  BY <1>4, <1>6, <1>7 DEF Traffic

\* Every step keeps Traffic.
LEMMA TrafficStep ==
  ASSUME Streams, Types, Traffic, [Next]_vars
  PROVE  Traffic'
<1> USE DEF net, client
<1>1. ASSUME UNCHANGED <<oneTime, outbox, inbox>>,
             \A c \in Calls : answer[c] = "waiting" => answer'[c] = "waiting"
      PROVE  Traffic'
  <2>1. \A k, b : Pending(k, b) => Pending(k, b)'
    BY <1>1 DEF Pending, Streams, IInv, Table, Requests
  <2> QED
    BY <1>1, <2>1 DEF Traffic, AllPending, Unique
<1>2. ASSUME NEW c \in Calls, NEW b \in Batches, NEW kind \in Kinds, RequestFails(kind, c, b)
      PROVE  Traffic'
  BY <1>1, <1>2 DEF RequestFails, Streams, IInv, Table
<1>3. ASSUME NEW c \in Calls, RefuseRequest(c) PROVE Traffic'
  BY <1>1, <1>3 DEF RefuseRequest, Streams, IInv, Table
<1>4. CASE Break
  BY <1>4 DEF Break, Traffic, AllPending, Unique
<1>5. CASE BrokerPublishes
  <2>1. PICK n \in Names : inbox' = Append(inbox, Publish(n))
    BY <1>5 DEF BrokerPublishes
  <2>2. Publish(n) \in Told /\ ~IsAck(Publish(n))
    BY DEF Told, Publish, IsAck
  <2>3. /\ Len(inbox) \in Nat /\ inbox' \in Seq(Told) /\ Len(inbox') = Len(inbox) + 1
        /\ \A i \in 1..Len(inbox) : inbox'[i] = inbox[i]
        /\ inbox'[Len(inbox) + 1] = Publish(n)
        /\ \A i \in 1..Len(inbox') : i \in 1..Len(inbox) \/ i = Len(inbox) + 1
    BY <2>1, <2>2, More DEF Traffic
  <2>4. UNCHANGED <<oneTime, answer, outbox>>
    BY <1>5 DEF BrokerPublishes
  <2>5. AllPending'
    BY <2>2, <2>3, <2>4 DEF Traffic, AllPending, Pending
  <2>6. Unique'
    BY <2>2, <2>3, <2>4 DEF Traffic, Unique
  <2> QED
    BY <2>3, <2>5, <2>6 DEF Traffic
<1>6. CASE NoticeBreak \/ Reconnect \/ UNCHANGED vars
  BY <1>1, <1>6 DEF NoticeBreak, Reconnect, vars
<1> QED
  BY <1>2, <1>3, <1>4, <1>5, <1>6, RequestTraffic, ReceiveTraffic, BrokerTraffic DEF Next

\* What the packets under way mean holds in every reachable state.
LEMMA TrafficHolds == Spec => [](Streams /\ Types /\ Traffic)
<1>1. Init => Traffic
  BY DEF Init, Traffic, AllPending, Unique
<1> QED
  BY <1>1, TrafficStep, StreamsInductive, TypesHold, PTL DEF Spec

\* As long as the counter does not come round to an identifier in flight, an
\* acknowledgement that arrives finds the request it answers, with the same
\* filters, and its caller waiting: for any number of identifiers, and
\* whatever requests of lost connections are left in one_time
\* (outbound_handlers.rs:30, inbound_handlers.rs:21-27).
THEOREM AcksFindRequests == Spec => []AckFindsRequest
<1>1. Traffic => AckFindsRequest
  <2> SUFFICES ASSUME Traffic, NEW i \in DOMAIN inbox, inbox[i].ty # "Publish"
               PROVE  Pending(<<Kind(inbox[i]), inbox[i].id>>, inbox[i].batch)
    BY DEF AckFindsRequest, Pending
  <2>1. i \in 1..Len(inbox)
    BY DEF Traffic
  <2> QED
    BY <2>1 DEF Traffic, AllPending, IsAck
<1> QED
  BY <1>1, TrafficHolds, PTL

-----------------------------------------------------------------------------
(* Callers are answered, and streams are held.                             *)

\* Without a loss the stream is open, and what the table has is on its way.
Waits(key) ==
  \/ \E i \in 1..Len(outbox) : <<outbox[i].ty, outbox[i].id>> = key
  \/ \E i \in 1..Len(inbox) : IsAck(inbox[i]) /\ <<Kind(inbox[i]), inbox[i].id>> = key

Unlost ==
  losses = 0 =>
    /\ link = "open"
    /\ \A key \in DOMAIN oneTime : Waits(key)

\* The head of the stream, when it is an acknowledgement, is handled.
LEMMA AckIsTaken ==
  ASSUME Traffic, Receive, IsAck(Head(inbox))
  PROVE  LET p == Head(inbox)
             key == <<Kind(p), p.id>>
         IN /\ Pending(key, p.batch)
            /\ oneTime' = Without(oneTime, {key})
            /\ \/ p.ty = "SubAck" /\ sub_ack_handler(p)
               \/ p.ty = "UnsubAck" /\ unsub_ack_handler(p)
<1> DEFINE p == Head(inbox)
           key == <<Kind(p), p.id>>
<1>1. Len(inbox) \in Nat \ {0} /\ p = inbox[1] /\ p \in Told
  BY Rest DEF Traffic, Receive
<1>2. 1 \in 1..Len(inbox)
  BY <1>1
<1>3. Pending(key, p.batch)
  BY <1>1, <1>2 DEF Traffic, AllPending
<1>4. p.ty \in {"SubAck", "UnsubAck"}
  BY <1>1, PacketKinds DEF IsAck
<1>5. key \in DOMAIN oneTime
  BY <1>3 DEF Pending
<1>6. CASE p.ty = "SubAck"
  <2>1. sub_ack_handler(p) /\ key = <<"Subscribe", p.id>>
    BY <1>5, <1>6 DEF Receive, UnexpectedResponse, Kind
  <2> QED
    BY <1>3, <1>6, <2>1 DEF sub_ack_handler
<1>7. CASE p.ty = "UnsubAck"
  <2>1. unsub_ack_handler(p) /\ key = <<"Unsubscribe", p.id>>
    BY <1>5, <1>7 DEF Receive, UnexpectedResponse, Kind
  <2> QED
    BY <1>3, <1>7, <2>1 DEF unsub_ack_handler
<1> QED
  BY <1>4, <1>6, <1>7

\* With filters that TopicFilter accepts, SUBACK is handled to its end.
LEMMA AckIsHandled ==
  ASSUME Unparsable = {}, Streams, Traffic, Receive, IsAck(Head(inbox))
  PROVE  LET p == Head(inbox)
             key == <<Kind(p), p.id>>
         IN /\ Pending(key, p.batch)
            /\ oneTime' = Without(oneTime, {key})
            /\ answer' = Answer({oneTime[key].call}, "ok")
            /\ subscriptions' =
                 IF p.ty = "SubAck"
                 THEN Subscribed(oneTime[key].call, p.batch, {i \in DOMAIN p.batch : p.codes[i]})
                 ELSE Without(subscriptions, Range(p.batch))
<1> DEFINE p == Head(inbox)
           key == <<Kind(p), p.id>>
<1>1. Pending(key, p.batch) /\ oneTime' = Without(oneTime, {key})
  BY AckIsTaken
<1>2. oneTime[key].batch = p.batch
  BY <1>1 DEF Pending
<1>3. CASE p.ty = "SubAck" /\ sub_ack_handler(p)
  <2>1. \A b, codes : Reached(b, codes) = {i \in DOMAIN b : codes[i]}
    BY DEF Reached, from_string
  <2> QED
    BY <1>1, <1>2, <1>3, <2>1 DEF sub_ack_handler, Kind
<1>4. CASE p.ty = "UnsubAck" /\ unsub_ack_handler(p)
  BY <1>1, <1>2, <1>4 DEF unsub_ack_handler, Kind
<1> QED
  BY <1>3, <1>4, AckIsTaken

\* A request replaces none, as those of the table are on the stream.
LEMMA RequestUnlost ==
  ASSUME Streams, Types, Traffic, Unlost, losses = 0,
         NEW c \in Calls, NEW b \in Batches, NEW kind \in Kinds,
         Request(kind, c, b), WireId \notin InFlight
  PROVE  Unlost'
<1>0. PICK wid : wid = WireId
  OBVIOUS
<1> DEFINE key == <<kind, wid>>
           q == [ty |-> kind, id |-> wid, batch |-> b]
<1>1. /\ \A i \in 1..Len(outbox) : outbox[i].id # wid
      /\ \A i \in 1..Len(inbox) : IsAck(inbox[i]) => inbox[i].id # wid
  BY <1>0, NewId
<1>2. key \notin DOMAIN oneTime
  BY <1>1 DEF Unlost, Waits
<1>3. /\ DOMAIN oneTime' = DOMAIN oneTime \cup {key}
      /\ inbox' = inbox /\ outbox' = Append(outbox, q) /\ link' = "open" /\ losses' = 0
  BY <1>0 DEF Request, Insert, Unlost
<1>5. q \in Asked /\ outbox \in Seq(Asked)
  BY <1>0, SubscriptionsAssumption DEF Types, Asked, WireId
<1>6. q.ty = kind /\ q.id = wid
  OBVIOUS
<1> HIDE DEF q
<1>7. /\ Len(outbox) \in Nat /\ Len(outbox') = Len(outbox) + 1
      /\ \A i \in 1..Len(outbox) : outbox'[i] = outbox[i]
      /\ outbox'[Len(outbox) + 1] = q
  BY <1>3, <1>5, More
<1>8. ASSUME NEW k \in DOMAIN oneTime' PROVE Waits(k)'
  <2>1. CASE k = key
    BY <1>6, <1>7, <2>1 DEF Waits
  <2>2. CASE k \in DOMAIN oneTime
    <3>1. Waits(k)
      BY <2>2 DEF Unlost
    <3> QED
      BY <1>3, <1>7, <3>1 DEF Waits, Kind, IsAck
  <2> QED
    BY <1>3, <2>1, <2>2
<1> QED
  BY <1>3, <1>8 DEF Unlost

\* What the loop takes from the stream it takes from the table.
LEMMA ReceiveUnlost ==
  ASSUME Traffic, Unlost, losses = 0, Receive
  PROVE  Unlost'
<1> DEFINE p == Head(inbox)
           key == <<Kind(p), p.id>>
<1>1. /\ Len(inbox) \in Nat \ {0} /\ p = inbox[1]
      /\ Len(inbox') = Len(inbox) - 1
      /\ \A i \in 1..Len(inbox') : inbox'[i] = inbox[i + 1]
  BY Rest DEF Traffic, Receive
<1>2. outbox' = outbox /\ link' = link /\ losses' = losses
  BY DEF Receive
<1>3. \A i \in 1..Len(inbox) : i = 1 \/ (i - 1 \in 1..Len(inbox') /\ inbox'[i - 1] = inbox[i])
  BY <1>1
<1>4. ASSUME NEW k, Waits(k), IsAck(p) => k # key PROVE Waits(k)'
  BY <1>1, <1>2, <1>3, <1>4 DEF Waits, IsAck, Kind
<1>5. CASE ~IsAck(p)
  <2>1. UNCHANGED <<oneTime, answer>>
    BY <1>5 DEF Receive, IsAck, publish_handler
  <2> QED
    BY <1>2, <1>4, <1>5, <2>1 DEF Unlost
<1>6. CASE IsAck(p)
  <2>1. oneTime' = Without(oneTime, {key})
    BY <1>6, AckIsTaken
  <2>2. \A k \in DOMAIN oneTime' : k \in DOMAIN oneTime /\ k # key
    BY <2>1 DEF Without
  <2> QED
    BY <1>2, <1>4, <2>2 DEF Unlost
<1> QED
  BY <1>5, <1>6

\* The broker answers what it takes.
LEMMA BrokerUnlost ==
  ASSUME Types, Traffic, Unlost, losses = 0, BrokerAnswers
  PROVE  Unlost'
<1> DEFINE p == Head(outbox)
<1>1. /\ Len(outbox) \in Nat \ {0} /\ p = outbox[1] /\ p \in Asked
      /\ Len(outbox') = Len(outbox) - 1
      /\ \A i \in 1..Len(outbox') : outbox'[i] = outbox[i + 1]
  BY Rest DEF BrokerAnswers, Types
<1>2. PICK a \in Told : inbox' = Append(inbox, a) /\ IsAck(a) /\ a.id = p.id /\ Kind(a) = p.ty
  <2>1. BrokerAnswers /\ p.ty = "Subscribe" =>
          \E codes \in [DOMAIN p.batch -> BOOLEAN] : inbox' = Append(inbox, SubAck(p.id, p.batch, codes))
    BY DEF BrokerAnswers
  <2>2. p.batch \in Batches /\ p.id \in Nat /\ p.ty \in Kinds
    BY <1>1, PacketKinds
  <2>3. \A codes \in [DOMAIN p.batch -> BOOLEAN] : SubAck(p.id, p.batch, codes) \in Told
    <3>1. PICK n \in Nat : p.batch \in [1..n -> Filters]
      BY <2>2, SubscriptionsAssumption DEF Batches
    <3> QED
      BY <2>2, <3>1 DEF SubAck, Told
  <2>4. CASE p.ty = "Subscribe"
    BY <2>1, <2>3, <2>4 DEF SubAck, IsAck, Kind
  <2>5. CASE p.ty = "Unsubscribe"
    BY <2>2, <2>5 DEF BrokerAnswers, UnsubAck, Told, IsAck, Kind
  <2> QED
    BY <2>2, <2>4, <2>5 DEF Kinds
<1>3. /\ Len(inbox) \in Nat /\ Len(inbox') = Len(inbox) + 1
      /\ \A i \in 1..Len(inbox) : inbox'[i] = inbox[i]
      /\ inbox'[Len(inbox) + 1] = a
  BY <1>2, More DEF Traffic
<1>4. \A i \in 1..Len(outbox) : i = 1 \/ (i - 1 \in 1..Len(outbox') /\ outbox'[i - 1] = outbox[i])
  BY <1>1
<1>5. ASSUME NEW k, Waits(k) PROVE Waits(k)'
  <2>1. CASE \E i \in 1..Len(outbox) : <<outbox[i].ty, outbox[i].id>> = k
    <3>1. PICK i \in 1..Len(outbox) : <<outbox[i].ty, outbox[i].id>> = k
      BY <2>1
    <3>2. CASE i = 1
      <4>1. Len(inbox) + 1 \in 1..Len(inbox') /\ <<Kind(a), a.id>> = k
        BY <1>1, <1>2, <1>3, <3>1, <3>2
      <4> QED
        BY <1>2, <1>3, <4>1 DEF Waits, IsAck, Kind
    <3>3. CASE i # 1
      BY <1>4, <3>1, <3>3 DEF Waits
    <3> QED
      BY <3>2, <3>3
  <2>2. CASE \E i \in 1..Len(inbox) : IsAck(inbox[i]) /\ <<Kind(inbox[i]), inbox[i].id>> = k
    BY <1>3, <2>2 DEF Waits, IsAck, Kind
  <2> QED
    BY <1>5, <2>1, <2>2 DEF Waits
<1>6. UNCHANGED <<link, losses, oneTime, answer>>
  BY DEF BrokerAnswers, client
<1> QED
  BY <1>5, <1>6 DEF Unlost

\* Every step keeps Unlost.
LEMMA UnlostHolds == Spec => []Unlost
<1>1. Init => Unlost
  BY DEF Init, Unlost
<1>2. Streams /\ Types /\ Traffic /\ Unlost /\ [Next]_vars => Unlost'
  <2> SUFFICES ASSUME Streams, Types, Traffic, Unlost, [Next]_vars, losses' = 0 PROVE Unlost'
    BY DEF Unlost
  <2>1. losses = 0
    <3>1. losses \in Nat
      BY SubscriptionsAssumption DEF Types
    <3>2. CASE Break
      BY <3>1, <3>2 DEF Break
    <3>3. CASE ~Break /\ Next
      BY <3>3 DEF Next, Request, RequestFails, RefuseRequest, Receive, BrokerAnswers,
                  BrokerPublishes, NoticeBreak, Reconnect
    <3> QED
      BY <3>2, <3>3 DEF vars
  <2>2. link = "open"
    BY <2>1 DEF Unlost
  <2>3. ASSUME UNCHANGED <<link, oneTime, outbox, inbox>> PROVE Unlost'
    BY <2>1, <2>3 DEF Unlost, Waits, IsAck, Kind
  <2>4. ASSUME NEW c \in Calls, NEW b \in Batches, NEW kind \in Kinds, RequestFails(kind, c, b)
        PROVE  Unlost'
    BY <2>3, <2>4 DEF RequestFails, net
  <2>5. CASE BrokerPublishes
    <3>1. PICK n \in Names : inbox' = Append(inbox, Publish(n))
      BY <2>5 DEF BrokerPublishes
    <3>2. /\ Len(inbox) \in Nat /\ Len(inbox') = Len(inbox) + 1
          /\ \A i \in 1..Len(inbox) : inbox'[i] = inbox[i]
      <4>1. Publish(n) \in Told
        BY DEF Told, Publish
      <4> QED
        BY <3>1, <4>1, More DEF Traffic
    <3>3. UNCHANGED <<link, losses, oneTime, answer, outbox>>
      BY <2>5 DEF BrokerPublishes, client
    <3>4. \A k : Waits(k) => Waits(k)'
      BY <3>2, <3>3 DEF Waits, IsAck, Kind
    <3> QED
      BY <3>3, <3>4 DEF Unlost
  <2>6. ~Break /\ ~NoticeBreak /\ ~Reconnect /\ \A c \in Calls : ~RefuseRequest(c)
    BY <2>1, <2>2 DEF Break, NoticeBreak, Reconnect, RefuseRequest
  <2>7. CASE UNCHANGED vars
    BY <2>7 DEF vars, client, net, Unlost, Waits, IsAck, Kind
  <2> QED
    BY <2>1, <2>4, <2>5, <2>6, <2>7, RequestUnlost, ReceiveUnlost, BrokerUnlost DEF Next
<1> QED
  BY <1>1, <1>2, TrafficHolds, PTL DEF Spec

\* The call of a request that another one displaces: its connection is lost,
\* as the identifiers of the requests on the stream are not used again.
LEMMA DisplacedIsOld ==
  ASSUME Streams, Types, Traffic, Unlost, NEW d \in Calls,
         answer[d] = "waiting", answer'[d] = "lost",
         NEW c \in Calls, NEW b \in Batches, NEW kind \in Kinds,
         Request(kind, c, b), WireId \notin InFlight
  PROVE  losses > 0 /\ \E key \in DOMAIN oneTime : Displaces(key, d)
<1>0. PICK wid : wid = WireId
  OBVIOUS
<1> DEFINE key == <<kind, wid>>
<1>1. d # c /\ d \in Displaced(key)
  BY <1>0 DEF Request, Answer, Streams, IInv, Table
<1>2. key \in DOMAIN oneTime /\ oneTime[key].call = d
  BY <1>1 DEF Displaced
<1>3. key \in DOMAIN oneTime' /\ oneTime'[key].call = c
  BY <1>0 DEF Request, Insert
<1>4. ~Waits(key)
  BY <1>0, NewId DEF Waits
<1>5. losses # 0
  BY <1>2, <1>4 DEF Unlost
<1>6. losses \in Nat
  BY SubscriptionsAssumption DEF Types
<1> QED
  BY <1>1, <1>2, <1>3, <1>5, <1>6 DEF Displaces

\* The call of a SUBACK that sub_ack_handler does not handle to its end.
LEMMA UnansweredIsRefused ==
  ASSUME Streams, Traffic, NEW d \in Calls, answer[d] = "waiting", answer'[d] = "lost", Receive
  PROVE  RefusesGranted(Head(inbox), d)
<1> DEFINE p == Head(inbox)
           key == <<Kind(p), p.id>>
<1>1. IsAck(p)
  BY DEF Receive, IsAck, publish_handler
<1>2. Pending(key, p.batch)
  BY <1>1, AckIsTaken
<1>3. CASE p.ty = "SubAck" /\ sub_ack_handler(p)
  <2>1. key = <<"Subscribe", p.id>> /\ oneTime[key].batch = p.batch
    BY <1>2, <1>3 DEF Pending, Kind
  <2>2. /\ oneTime[key].call = d
        /\ Reached(p.batch, p.codes) # {i \in DOMAIN p.batch : p.codes[i]}
    BY <1>3, <2>1 DEF sub_ack_handler, Answer
  <2>3. PICK i \in DOMAIN p.batch : p.codes[i] /\ i \notin Reached(p.batch, p.codes)
    BY <2>2 DEF Reached
  <2>4. PICK j \in 1..i : p.codes[j] /\ ~from_string(p.batch[j])
    BY <2>3 DEF Reached
  <2>5. j \in DOMAIN p.batch
    <3>1. p.batch \in Batches
      BY <1>1, Rest, PacketKinds DEF Traffic, Receive
    <3>2. PICK n \in Nat : p.batch \in [1..n -> Filters]
      BY <3>1, SubscriptionsAssumption DEF Batches
    <3> QED
      BY <2>3, <2>4, <3>2
  <2> QED
    BY <1>3, <2>1, <2>2, <2>4, <2>5 DEF RefusesGranted
<1>4. CASE p.ty = "UnsubAck" /\ unsub_ack_handler(p)
  BY <1>4 DEF unsub_ack_handler, Answer
<1> QED
  BY <1>1, <1>3, <1>4, AckIsTaken

\* A waiting call loses its answer only when its connection is lost and its
\* identifier used again (outbound_handlers.rs:30), or when TopicFilter
\* refuses a filter the broker granted (inbound_handlers.rs:41): for any
\* filters, batches and number of identifiers, and any number of losses.
THEOREM LossIsExplained == Spec => LostOnlyToReuseOrRefusal
<1> DEFINE Reason(c) == \/ losses > 0 /\ \E key \in DOMAIN oneTime : Displaces(key, c)
                        \/ Receive /\ RefusesGranted(Head(inbox), c)
           Explained == \A c \in Calls : answer[c] = "waiting" /\ answer'[c] = "lost" => Reason(c)
<1>1. ASSUME Streams, Types, Traffic, Unlost, [Next]_vars PROVE Explained
  <2> SUFFICES ASSUME NEW d \in Calls, answer[d] = "waiting", answer'[d] = "lost"
               PROVE  Reason(d)
    OBVIOUS
  <2>1. ASSUME NEW c \in Calls, NEW b \in Batches, NEW kind \in Kinds,
               Request(kind, c, b), WireId \notin InFlight
        PROVE  Reason(d)
    BY <1>1, <2>1, DisplacedIsOld
  <2>2. ASSUME NEW c \in Calls, NEW b \in Batches, NEW kind \in Kinds,
               RequestFails(kind, c, b) \/ RefuseRequest(c)
        PROVE  FALSE
    BY <1>1, <2>2 DEF RequestFails, RefuseRequest, Streams, IInv, Table
  <2>3. ASSUME NEW c \in Calls, RefuseRequest(c) PROVE FALSE
    BY <1>1, <2>3 DEF RefuseRequest, Streams, IInv, Table
  <2>4. CASE Receive
    BY <1>1, <2>4, UnansweredIsRefused
  <2>5. CASE BrokerAnswers \/ BrokerPublishes \/ Break \/ NoticeBreak \/ Reconnect \/ UNCHANGED vars
    BY <2>5 DEF BrokerAnswers, BrokerPublishes, Break, NoticeBreak, Reconnect, client, vars
  <2> QED
    BY <1>1, <2>1, <2>2, <2>3, <2>4, <2>5 DEF Next
<1> QED
  BY <1>1, TrafficHolds, UnlostHolds, PTL DEF Spec, LostOnlyToReuseOrRefusal

\* With filters that TopicFilter accepts, a stream goes into the table in the
\* step that answers its caller (inbound_handlers.rs:38-52), whatever is lost.
THEOREM StreamsAreHeld ==
  ASSUME Unparsable = {}
  PROVE  Spec => []NoOrphanStreams
<1>1. Init => NoOrphanStreams
  BY DEF Init, NoOrphanStreams
<1>2. Streams /\ Types /\ Traffic /\ NoOrphanStreams /\ [Next]_vars => NoOrphanStreams'
  <2> SUFFICES ASSUME Streams, Types, Traffic, NoOrphanStreams, [Next]_vars
               PROVE  NoOrphanStreams'
    OBVIOUS
  <2>1. \A f \in DOMAIN subscriptions : subscriptions[f][1] \in Calls
    BY DEF Streams, Fed, SubscriptionStreams
  <2>2. ASSUME UNCHANGED subscriptions, \A c \in Calls : answer[c] = "ok" => answer'[c] = "ok"
        PROVE  NoOrphanStreams'
    BY <2>1, <2>2 DEF NoOrphanStreams
  <2>3. ASSUME NEW c \in Calls, NEW b \in Batches, NEW kind \in Kinds,
               Request(kind, c, b) \/ RequestFails(kind, c, b) \/ RefuseRequest(c)
        PROVE  NoOrphanStreams'
    BY <2>2, <2>3 DEF Request, RequestFails, RefuseRequest, Answer, Streams, IInv, Table
  <2>4. ASSUME NEW c \in Calls, RefuseRequest(c) PROVE NoOrphanStreams'
    BY <2>2, <2>4 DEF RefuseRequest, Streams, IInv, Table
  <2>5. CASE Receive /\ ~IsAck(Head(inbox))
    BY <2>2, <2>5 DEF Receive, IsAck, publish_handler
  <2>6. CASE Receive /\ IsAck(Head(inbox))
    <3> DEFINE p == Head(inbox)
               key == <<Kind(p), p.id>>
               c == oneTime[key].call
               R == {i \in DOMAIN p.batch : p.codes[i]}
    <3>1. /\ Pending(key, p.batch) /\ answer' = Answer({c}, "ok")
          /\ subscriptions' = IF p.ty = "SubAck" THEN Subscribed(c, p.batch, R)
                              ELSE Without(subscriptions, Range(p.batch))
      BY <2>6, AckIsHandled
    <3>2. c \in Calls /\ answer[c] = "waiting" /\ p.batch \in Batches
      BY <3>1 DEF Pending, Streams, IInv, Table, Requests
    <3>3. answer'[c] = "ok" /\ \A d \in Calls : answer[d] = "ok" => answer'[d] = "ok"
      BY <3>1, <3>2 DEF Answer
    <3>4. ASSUME NEW f \in DOMAIN subscriptions' PROVE answer'[subscriptions'[f][1]] = "ok"
      <4>1. CASE p.ty = "SubAck"
        <5>1. f \in DOMAIN Subscribed(c, p.batch, R) /\ R \subseteq DOMAIN p.batch
          BY <3>1, <4>1
        <5> HIDE DEF R, c
        <5>2. \/ \E i \in R : subscriptions'[f] = <<c, i>>
              \/ f \in DOMAIN subscriptions /\ subscriptions'[f] = subscriptions[f]
          BY <3>1, <3>2, <4>1, <5>1, SubscribedFeeds
        <5> QED
          BY <2>1, <3>3, <5>2 DEF NoOrphanStreams
      <4>2. CASE p.ty # "SubAck"
        <5>1. f \in DOMAIN subscriptions /\ subscriptions'[f] = subscriptions[f]
          BY <3>1, <4>2 DEF Without
        <5> QED
          BY <2>1, <3>3, <5>1 DEF NoOrphanStreams
      <4> QED
        BY <4>1, <4>2
    <3> QED
      BY <3>4 DEF NoOrphanStreams
  <2>7. CASE BrokerAnswers \/ BrokerPublishes \/ Break \/ NoticeBreak \/ Reconnect \/ UNCHANGED vars
    BY <2>2, <2>7 DEF BrokerAnswers, BrokerPublishes, Break, NoticeBreak, Reconnect, client, vars
  <2> QED
    BY <2>3, <2>4, <2>5, <2>6, <2>7 DEF Next
<1> QED
  BY <1>1, <1>2, TrafficHolds, PTL DEF Spec

-----------------------------------------------------------------------------
(* The table of the loop and the filters of the broker.                    *)

Grants(p, f) == p.ty = "SubAck" /\ \E i \in DOMAIN p.batch : p.codes[i] /\ p.batch[i] = f
Removes(p, f) == p.ty = "UnsubAck" /\ f \in Range(p.batch)

\* A filter is in the table, which had D before the packets s were handled,
\* when the packet at place i comes.
Known(D, s, f, i) ==
  \/ f \in D /\ \A j \in 1..i-1 : ~Removes(s[j], f)
  \/ \E j \in 1..i-1 : Grants(s[j], f) /\ \A k \in j+1..i-1 : ~Removes(s[k], f)

\* Nothing is granted and removed by one packet.
LEMMA OneOrTheOther ==
  ASSUME NEW p, NEW f
  PROVE  ~(Grants(p, f) /\ Removes(p, f))
  BY DEF Grants, Removes

\* Before the first packet the table is as it is.
LEMMA KnownFirst ==
  ASSUME NEW D, NEW s, NEW f
  PROVE  Known(D, s, f, 1) <=> f \in D
<1>1. 1..(1 - 1) = {}
  OBVIOUS
<1> QED
  BY <1>1 DEF Known

\* What a packet does to what is known.
LEMMA KnownNext ==
  ASSUME NEW D, NEW s, NEW f, NEW i \in Nat \ {0}
  PROVE  Known(D, s, f, i + 1) <=> Grants(s[i], f) \/ (Known(D, s, f, i) /\ ~Removes(s[i], f))
<1>1. /\ (i + 1) - 1 = i /\ i \in 1..i
      /\ \A j \in 1..i : j = i \/ j \in 1..i-1
      /\ \A j \in 1..i-1 : j \in 1..i /\ i \in j+1..i /\ \A k \in j+1..i : k = i \/ k \in j+1..i-1
      /\ \A j \in 1..i-1 : \A k \in j+1..i-1 : k \in j+1..i
      /\ i+1..i = {}
  OBVIOUS
<1>2. Known(D, s, f, i + 1) <=>
        \/ f \in D /\ \A j \in 1..i : ~Removes(s[j], f)
        \/ \E j \in 1..i : Grants(s[j], f) /\ \A k \in j+1..i : ~Removes(s[k], f)
  BY <1>1 DEF Known
<1>3. (f \in D /\ \A j \in 1..i : ~Removes(s[j], f))
        <=> (f \in D /\ \A j \in 1..i-1 : ~Removes(s[j], f)) /\ ~Removes(s[i], f)
  BY <1>1
<1>4. (\E j \in 1..i : Grants(s[j], f) /\ \A k \in j+1..i : ~Removes(s[k], f))
        <=> \/ Grants(s[i], f)
            \/ /\ \E j \in 1..i-1 : Grants(s[j], f) /\ \A k \in j+1..i-1 : ~Removes(s[k], f)
               /\ ~Removes(s[i], f)
  BY <1>1
<1> QED
  BY <1>2, <1>3, <1>4 DEF Known

\* A packet at the end of the stream changes nothing for those before.
LEMMA KnownAppend ==
  ASSUME NEW S, NEW s \in Seq(S), NEW a \in S, NEW D, NEW f, NEW i \in 1..Len(s) + 1
  PROVE  Known(D, Append(s, a), f, i) <=> Known(D, s, f, i)
<1>1. \A j \in 1..i-1 : Append(s, a)[j] = s[j] /\ \A k \in j+1..i-1 : k \in 1..i-1
  BY More
<1> QED
  BY <1>1 DEF Known

\* The first packet is handled: the others move up, and the table has what the
\* packet left in it.
LEMMA KnownShift ==
  ASSUME NEW S, NEW s \in Seq(S), s # <<>>, NEW D, NEW T, NEW f, NEW i \in 1..Len(s),
         f \in T <=> Grants(Head(s), f) \/ (f \in D /\ ~Removes(Head(s), f))
  PROVE  Known(T, Tail(s), f, i) <=> Known(D, s, f, i + 1)
<1> DEFINE t == Tail(s)
<1>1. Head(s) = s[1] /\ Len(s) \in Nat /\ \A j \in 1..Len(s)-1 : t[j] = s[j + 1]
  BY Rest
<1> HIDE DEF t
<1>2. /\ i \in Nat \ {0} /\ (i + 1) - 1 = i /\ 1 \in 1..i
      /\ \A j \in 1..i-1 : t[j] = s[j + 1] /\ j + 1 \in 1..i /\ j + 1 # 1
      /\ \A j \in 1..i : j = 1 \/ (j - 1 \in 1..i-1 /\ t[j - 1] = s[j])
  BY <1>1
<1>3. (\A j \in 1..i : ~Removes(s[j], f))
        <=> ~Removes(s[1], f) /\ \A j \in 1..i-1 : ~Removes(t[j], f)
  BY <1>2
<1>4. (\A k \in 2..i : ~Removes(s[k], f)) <=> \A j \in 1..i-1 : ~Removes(t[j], f)
  <2>1. \A k \in 2..i : k - 1 \in 1..i-1 /\ t[k - 1] = s[k]
    BY <1>2
  <2>2. \A j \in 1..i-1 : j + 1 \in 2..i /\ t[j] = s[j + 1]
    BY <1>2
  <2> QED
    BY <2>1, <2>2
<1>5. ASSUME NEW j \in 1..i-1
      PROVE  (\A k \in j+1..i-1 : ~Removes(t[k], f)) <=> \A k \in (j+1)+1..i : ~Removes(s[k], f)
  <2>1. \A k \in (j+1)+1..i : k - 1 \in j+1..i-1 /\ t[k - 1] = s[k]
    BY <1>2
  <2>2. \A k \in j+1..i-1 : k + 1 \in (j+1)+1..i /\ t[k] = s[k + 1]
    BY <1>2
  <2> QED
    BY <2>1, <2>2
<1>6. (\E j \in 1..i : Grants(s[j], f) /\ \A k \in j+1..i : ~Removes(s[k], f))
        <=> \/ Grants(s[1], f) /\ \A j \in 1..i-1 : ~Removes(t[j], f)
            \/ \E j \in 1..i-1 : Grants(t[j], f) /\ \A k \in j+1..i-1 : ~Removes(t[k], f)
  <2>1. ASSUME NEW j \in 1..i, Grants(s[j], f), \A k \in j+1..i : ~Removes(s[k], f), j # 1
        PROVE  \E l \in 1..i-1 : Grants(t[l], f) /\ \A k \in l+1..i-1 : ~Removes(t[k], f)
    <3>1. j - 1 \in 1..i-1 /\ t[j - 1] = s[j] /\ ((j - 1) + 1) + 1 = j + 1
      BY <1>2, <2>1
    <3> QED
      BY <1>5, <2>1, <3>1
  <2>2. ASSUME NEW j \in 1..i-1, Grants(t[j], f), \A k \in j+1..i-1 : ~Removes(t[k], f)
        PROVE  \E l \in 1..i : Grants(s[l], f) /\ \A k \in l+1..i : ~Removes(s[k], f)
    BY <1>2, <1>5, <2>2
  <2>3. 1 + 1 = 2
    OBVIOUS
  <2> QED
    BY <1>2, <1>4, <2>1, <2>2, <2>3
<1>7. Known(D, s, f, i + 1) <=>
        \/ f \in D /\ \A j \in 1..i : ~Removes(s[j], f)
        \/ \E j \in 1..i : Grants(s[j], f) /\ \A k \in j+1..i : ~Removes(s[k], f)
  BY <1>2 DEF Known
<1>8. Known(T, t, f, i) <=>
        \/ f \in T /\ \A j \in 1..i-1 : ~Removes(t[j], f)
        \/ \E j \in 1..i-1 : Grants(t[j], f) /\ \A k \in j+1..i-1 : ~Removes(t[k], f)
  BY DEF Known
<1> QED
  BY <1>1, <1>3, <1>6, <1>7, <1>8 DEF t

\* While the stream is open, what the broker has will be known when all of the
\* stream is handled, and a message finds the filter it was sent for.
Agree ==
  /\ link = "open" => \A f \in broker : Known(DOMAIN subscriptions, inbox, f, Len(inbox) + 1)
  /\ losses = 0 =>
       \A f \in Filters : Known(DOMAIN subscriptions, inbox, f, Len(inbox) + 1) => f \in broker
  /\ \A i \in 1..Len(inbox) : inbox[i].ty = "Publish" =>
       \E f \in Filters : inbox[i].name \in CoveredBy[f] /\ Known(DOMAIN subscriptions, inbox, f, i)

\* What the handlers do to the table, packet by packet.
LEMMA TableAfter ==
  ASSUME Unparsable = {}, Streams, Traffic, Receive, NEW f
  PROVE  f \in DOMAIN subscriptions' <=>
           Grants(Head(inbox), f) \/ (f \in DOMAIN subscriptions /\ ~Removes(Head(inbox), f))
<1> DEFINE p == Head(inbox)
           key == <<Kind(p), p.id>>
<1>1. p \in Told
  BY Rest DEF Traffic, Receive
<1>2. p.ty \in {"SubAck", "UnsubAck", "Publish"}
  BY <1>1, PacketKinds
<1>3. CASE p.ty = "Publish"
  BY <1>3 DEF Receive, publish_handler, Grants, Removes
<1>4. CASE p.ty = "SubAck"
  <2>1. subscriptions' = Subscribed(oneTime[key].call, p.batch, {i \in DOMAIN p.batch : p.codes[i]})
    BY <1>4, AckIsHandled DEF IsAck
  <2>2. DOMAIN subscriptions' =
          DOMAIN subscriptions \cup {p.batch[i] : i \in {j \in DOMAIN p.batch : p.codes[j]}}
    BY <2>1 DEF Subscribed
  <2> QED
    BY <1>4, <2>2 DEF Grants, Removes
<1>5. CASE p.ty = "UnsubAck"
  <2>1. subscriptions' = Without(subscriptions, Range(p.batch))
    BY <1>5, AckIsHandled DEF IsAck
  <2>2. DOMAIN subscriptions' = DOMAIN subscriptions \ Range(p.batch)
    BY <2>1 DEF Without
  <2> QED
    BY <1>5, <2>2 DEF Grants, Removes
<1> QED
  BY <1>2, <1>3, <1>4, <1>5

\* A packet handled early is known late.
LEMMA ReceiveAgree ==
  ASSUME Unparsable = {}, Streams, Traffic, Agree, Receive
  PROVE  Agree'
<1> DEFINE D == DOMAIN subscriptions
           n == Len(inbox)
<1>1. /\ inbox \in Seq(Told) /\ inbox # <<>> /\ inbox' = Tail(inbox)
      /\ UNCHANGED <<link, broker, losses>>
  BY DEF Receive, Traffic
<1>2. /\ n \in Nat \ {0} /\ Len(inbox') + 1 = n /\ n \in 1..n
      /\ \A i \in 1..Len(inbox') : i \in 1..n /\ i + 1 \in 1..n /\ inbox'[i] = inbox[i + 1]
  BY <1>1, Rest
<1>3. \A f : \A i \in 1..n :
        Known(DOMAIN subscriptions', inbox', f, i) <=> Known(D, inbox, f, i + 1)
  BY <1>1, TableAfter, KnownShift
<1>4. \A f : Known(DOMAIN subscriptions', inbox', f, Len(inbox') + 1) <=> Known(D, inbox, f, n + 1)
  BY <1>2, <1>3
<1>5. ASSUME NEW i \in 1..Len(inbox'), inbox'[i].ty = "Publish"
      PROVE  \E f \in Filters : /\ inbox'[i].name \in CoveredBy[f]
                                /\ Known(DOMAIN subscriptions', inbox', f, i)
  <2>1. PICK f \in Filters : inbox[i + 1].name \in CoveredBy[f] /\ Known(D, inbox, f, i + 1)
    BY <1>2, <1>5 DEF Agree
  <2> QED
    BY <1>2, <1>3, <2>1
<1> QED
  BY <1>1, <1>4, <1>5 DEF Agree

\* What a packet at the end of the stream says is the last word.
LEMMA AppendAgree ==
  ASSUME Traffic, Agree, link = "open", NEW a \in Told, inbox' = Append(inbox, a),
         UNCHANGED <<link, subscriptions, losses>>,
         \A f : f \in broker' <=> Grants(a, f) \/ (f \in broker /\ ~Removes(a, f)),
         a.ty = "Publish" => \E f \in broker : f \in Filters /\ a.name \in CoveredBy[f]
  PROVE  Agree'
<1> DEFINE D == DOMAIN subscriptions
           n == Len(inbox)
<1>1. /\ n \in Nat /\ inbox \in Seq(Told) /\ Len(inbox') = n + 1
      /\ \A i \in 1..n : inbox'[i] = inbox[i]
      /\ inbox'[n + 1] = a
      /\ \A i \in 1..Len(inbox') : i \in 1..n + 1 /\ (i \in 1..n \/ i = n + 1)
  BY More DEF Traffic
<1>2. n + 1 \in Nat \ {0} /\ n + 1 \in 1..n + 1
  BY <1>1
<1>3. \A f : \A i \in 1..n + 1 : Known(D, inbox', f, i) <=> Known(D, inbox, f, i)
  BY <1>1, KnownAppend
<1>4. \A f : Known(D, inbox', f, (n + 1) + 1)
               <=> Grants(a, f) \/ (Known(D, inbox, f, n + 1) /\ ~Removes(a, f))
  <2> TAKE f
  <2> HIDE DEF D, n
  <2>1. PICK s : s = inbox'
    OBVIOUS
  <2>2. Known(D, s, f, (n + 1) + 1)
          <=> Grants(s[n + 1], f) \/ (Known(D, s, f, n + 1) /\ ~Removes(s[n + 1], f))
    BY <1>2, KnownNext
  <2>3. Known(D, inbox', f, n + 1) <=> Known(D, inbox, f, n + 1)
    BY <1>2, <1>3
  <2> QED
    BY <1>1, <2>1, <2>2, <2>3
<1>5. \A f \in broker' : Known(D, inbox', f, Len(inbox') + 1)
  BY <1>1, <1>4 DEF Agree
<1>6. losses = 0 => \A f \in Filters : Known(D, inbox', f, Len(inbox') + 1) => f \in broker'
  BY <1>1, <1>4 DEF Agree
<1>7. ASSUME NEW i \in 1..Len(inbox'), inbox'[i].ty = "Publish"
      PROVE  \E f \in Filters : inbox'[i].name \in CoveredBy[f] /\ Known(D, inbox', f, i)
  <2>1. CASE i \in 1..n
    <3>1. PICK f \in Filters : inbox[i].name \in CoveredBy[f] /\ Known(D, inbox, f, i)
      BY <1>1, <1>7, <2>1 DEF Agree
    <3> QED
      BY <1>1, <1>3, <2>1, <3>1
  <2>2. CASE i = n + 1
    <3>1. PICK f \in broker : f \in Filters /\ a.name \in CoveredBy[f]
      BY <1>1, <1>7, <2>2
    <3>2. Known(D, inbox, f, n + 1)
      BY <3>1 DEF Agree
    <3> QED
      BY <1>1, <1>2, <1>3, <2>2, <3>1, <3>2
  <2> QED
    BY <1>1, <2>1, <2>2
<1> QED
  BY <1>5, <1>6, <1>7 DEF Agree

\* Every step keeps Agree.
LEMMA AgreeHolds ==
  ASSUME Unparsable = {}, OldFilters = {}, Clean
  PROVE  Spec => []Agree
<1>1. Init => Agree
  <2> SUFFICES ASSUME Init PROVE Agree
    OBVIOUS
  <2>1. broker = {} /\ DOMAIN subscriptions = {} /\ inbox = <<>> /\ Len(inbox) + 1 = 1
    BY DEF Init
  <2>2. \A f : ~Known(DOMAIN subscriptions, inbox, f, 1)
    BY <2>1, KnownFirst
  <2> QED
    BY <2>1, <2>2 DEF Agree
<1>2. Streams /\ Types /\ Traffic /\ Unlost /\ Agree /\ [Next]_vars => Agree'
  <2> SUFFICES ASSUME Streams, Types, Traffic, Unlost, Agree, [Next]_vars PROVE Agree'
    OBVIOUS
  <2>1. ASSUME UNCHANGED <<subscriptions, inbox, broker, losses>>, link' = "open" => link = "open"
        PROVE  Agree'
    BY <2>1 DEF Agree
  <2>2. ASSUME NEW c \in Calls, NEW b \in Batches, NEW kind \in Kinds,
               Request(kind, c, b) \/ RequestFails(kind, c, b)
        PROVE  Agree'
    BY <2>1, <2>2 DEF Request, RequestFails, net
  <2>3. ASSUME NEW c \in Calls, RefuseRequest(c) PROVE Agree'
    BY <2>1, <2>3 DEF RefuseRequest, net
  <2>4. CASE BrokerAnswers
    <3> DEFINE p == Head(outbox)
    <3>1. p \in Asked
      BY <2>4, Rest DEF BrokerAnswers, Types
    <3>2. p.batch \in Batches /\ p.id \in Nat /\ p.ty \in Kinds
      BY <3>1, PacketKinds
    <3>3. UNCHANGED <<link, subscriptions, losses>> /\ link = "open"
      BY <2>4 DEF BrokerAnswers, client
    <3>4. CASE p.ty = "Subscribe"
      <4>1. PICK codes \in [DOMAIN p.batch -> BOOLEAN] :
              /\ inbox' = Append(inbox, SubAck(p.id, p.batch, codes))
              /\ broker' = broker \cup {p.batch[i] : i \in {j \in DOMAIN p.batch : codes[j]}}
        BY <2>4, <3>4 DEF BrokerAnswers
      <4> DEFINE a == SubAck(p.id, p.batch, codes)
      <4>2. a \in Told
        <5>1. PICK n \in Nat : p.batch \in [1..n -> Filters]
          BY <3>2, SubscriptionsAssumption DEF Batches
        <5> QED
          BY <3>2, <5>1 DEF SubAck, Told
      <4>3. a.ty = "SubAck" /\ a.batch = p.batch /\ a.codes = codes
        BY DEF SubAck
      <4>4. \A f : f \in broker' <=> Grants(a, f) \/ (f \in broker /\ ~Removes(a, f))
        BY <4>1, <4>3 DEF Grants, Removes
      <4> QED
        BY <3>3, <4>1, <4>2, <4>3, <4>4, AppendAgree
    <3>5. CASE p.ty = "Unsubscribe"
      <4> DEFINE a == UnsubAck(p.id, p.batch)
      <4>1. inbox' = Append(inbox, a) /\ broker' = broker \ Range(p.batch)
        BY <2>4, <3>5 DEF BrokerAnswers
      <4>2. a \in Told /\ a.ty = "UnsubAck" /\ a.batch = p.batch
        BY <3>2 DEF UnsubAck, Told
      <4>3. \A f : f \in broker' <=> Grants(a, f) \/ (f \in broker /\ ~Removes(a, f))
        BY <4>1, <4>2 DEF Grants, Removes
      <4> QED
        BY <3>3, <4>1, <4>2, <4>3, AppendAgree
    <3> QED
      BY <3>2, <3>4, <3>5 DEF Kinds
  <2>5. CASE BrokerPublishes
    <3>1. PICK g \in broker, n \in Names : n \in CoveredBy[g] /\ inbox' = Append(inbox, Publish(n))
      BY <2>5 DEF BrokerPublishes
    <3>2. /\ Publish(n) \in Told /\ Publish(n).ty = "Publish" /\ Publish(n).name = n
          /\ \A f : ~Grants(Publish(n), f) /\ ~Removes(Publish(n), f)
      BY DEF Publish, Told, Grants, Removes
    <3>3. UNCHANGED <<link, subscriptions, losses, broker>> /\ link = "open" /\ g \in Filters
      BY <2>5 DEF BrokerPublishes, client, Types
    <3> QED
      BY <3>1, <3>2, <3>3, AppendAgree
  <2>6. CASE Break
    <3>1. losses' # 0
      BY <2>6, SubscriptionsAssumption DEF Break, Types
    <3>2. link' # "open" /\ Len(inbox') = 0
      BY <2>6 DEF Break
    <3> QED
      BY <3>1, <3>2 DEF Agree
  <2>7. CASE Reconnect
    <3>1. losses # 0 /\ losses' = losses
      BY <2>7 DEF Reconnect, Unlost
    <3>2. broker' = {} /\ UNCHANGED <<subscriptions, inbox>>
      BY <2>7 DEF Reconnect, client, net
    <3> QED
      BY <3>1, <3>2 DEF Agree
  <2>8. CASE NoticeBreak \/ UNCHANGED vars
    BY <2>1, <2>8 DEF NoticeBreak, vars, client, net
  <2> QED
    BY <2>2, <2>3, <2>4, <2>5, <2>6, <2>7, <2>8, ReceiveAgree DEF Next
<1> QED
  BY <1>1, <1>2, TrafficHolds, UnlostHolds, PTL DEF Spec

\* With clean sessions and filters that TopicFilter accepts, the loop and the
\* broker agree on the subscriptions when nothing is on the stream, for any
\* batches, overlapping requests and losses (inbound_handlers.rs:38-44, 66-72).
THEOREM TablesAreKept ==
  ASSUME Unparsable = {}, OldFilters = {}, Clean
  PROVE  Spec => []TablesAgree
<1>1. Streams /\ Agree => TablesAgree
  <2> SUFFICES ASSUME Streams, Agree, link = "open", inbox = <<>>
               PROVE  /\ broker \subseteq DOMAIN subscriptions
                      /\ losses = 0 => broker = DOMAIN subscriptions
    BY DEF TablesAgree
  <2>1. \A f : Known(DOMAIN subscriptions, inbox, f, Len(inbox) + 1) <=> f \in DOMAIN subscriptions
    <3>1. Len(inbox) + 1 = 1
      OBVIOUS
    <3> QED
      BY <3>1, KnownFirst
  <2> QED
    BY <2>1 DEF Agree, Streams, Fed
<1> QED
  BY <1>1, AgreeHolds, StreamsInductive, PTL

\* With the same, and a TopicFilter that misses nothing but names with an empty
\* level, as NothingIsMissed says, a message the broker sends for a filter is
\* copied to a stream, however it and the acknowledgements around it are
\* ordered (inbound_handlers.rs:99).
THEOREM MessagesAreHeard ==
  ASSUME Unparsable = {}, OldFilters = {}, Clean,
         \A f \in Filters : CoveredBy[f] \subseteq MatchedBy[f] \cup WithEmptyLevel
  PROVE  Spec => NothingFallsThrough
<1> DEFINE Caught ==
      Receive /\ Head(inbox).ty = "Publish" => heard' # {} \/ Head(inbox).name \in WithEmptyLevel
<1>1. Traffic /\ Agree /\ [Next]_vars => [Caught]_vars
  <2> SUFFICES ASSUME Traffic, Agree, Receive, Head(inbox).ty = "Publish",
                      Head(inbox).name \notin WithEmptyLevel
               PROVE  heard' # {}
    OBVIOUS
  <2>1. Head(inbox) = inbox[1] /\ 1 \in 1..Len(inbox)
    BY Rest DEF Traffic, Receive
  <2>2. PICK f \in Filters :
          Head(inbox).name \in CoveredBy[f] /\ Known(DOMAIN subscriptions, inbox, f, 1)
    BY <2>1 DEF Agree
  <2>3. f \in DOMAIN subscriptions /\ Head(inbox).name \in MatchedBy[f]
    BY <2>2, KnownFirst
  <2>4. publish_handler(Head(inbox))
    BY DEF Receive
  <2> QED
    BY <2>3, <2>4 DEF publish_handler, match_with
<1> QED
  BY <1>1, AgreeHolds, TrafficHolds, PTL DEF Spec, NothingFallsThrough
=============================================================================
