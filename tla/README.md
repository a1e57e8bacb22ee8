# Formal models of tokio-mqtt

This directory models the MQTT client in `src/` in TLA+. TLC checks the models
on small instances, and TLAPS proves the invariants that matter most for every
value of the constants.

The repository is in the middle of a migration from a hand-written event loop
to an actor model (actix), and at this commit it does not build: some methods
are `unimplemented!()`, some fields are used and not declared (`timer`,
`OneTimeKey`, `one_time`). The modules model what the handlers say. Where two
halves of the migration disagree, this file names the half that is modelled.

Paths are relative to `src/src/`. The handler files (`connect.rs`, `response.rs` and
so on) are in `backend/`, and `fs.rs` is in `persistence/`.

## 1. Inventory

| Component | Source | State | Operations | Modelled in |
|---|---|---|---|---|
| Loop actor: life cycle | `backend/mqtt_loop.rs`, `connect.rs`, `disconnect.rs`, `response.rs` | `status` with the sender it carries, pending timeouts | Connect, ConnectTimeout, CONNACK, Disconnect, DisconnectTimeout, a client request | `Session` |
| Loop actor: keep-alive and pings | `backend/ping.rs`, `outbound_handlers.rs`, `inbound_handlers.rs` | `timer`, `ping_subs` | ping call, PingRequest, PingTimeout, PingResponse, PINGRESP | `Session` |
| Loop actor: publish flows | `backend/outbound_handlers.rs`, `inbound_handlers.rs` | `client_publish_state`, `server_publish_state`, the store | publish call, PUBLISH, PUBACK, PUBREC, PUBREL, PUBCOMP | `PublishFlows` |
| Loop actor: subscriptions | the same, `mqtt_loop.rs` | `next_packet_id`, `one_time`, `subscriptions`, `session_subs` | subscribe, unsubscribe, SUBACK, UNSUBACK, PUBLISH with QoS 0 and 1 | `Subscriptions` |
| Persistence contract | `persistence/mod.rs` | packets by key | open, close, put, get, contains, remove, keys, clear | `PacketStore` |
| File system store | `persistence/fs.rs` | cache, files | the same | `FsPersistence` |
| Client API | `client.rs` | `Config` | connect, ping, disconnect, publish, subscribe, unsubscribe | as the calls of the modules above |
| Futures and streams | `types.rs` | oneshot and mpsc channels | poll | as answers of calls |
| Packets and headers | `proto/mod.rs`, `proto/types.rs`, `proto/headers.rs` | – | build, encode | `Packets` (the bytes), as records in the other modules |
| Topic filters | `proto/topic_filter.rs` | a regular expression | from_string, match_topic | `TopicFilters` |
| Framing | `proto/parsers.rs`, `proto/mod.rs`, `backend/codec.rs` | the decoder's buffer | encode_vle, decode_vle, the parsers, decode, encode | `Vle`, `Parsers`, `Framing` |
| Connection state machine | `backend/connection.rs` | – | a fragment without transitions | no |
| Actor framework | `backend/actor/*` | – | empty traits that nothing uses | no |
| Errors, crate root | `errors.rs`, `lib.rs` | – | declarations | no |

### How the parts interact

The `Client` sends one message per call to the Loop actor with a oneshot sender
in it, and gives the receiver to the user as a future. The Loop takes one
message at a time and runs its handler to the end. Messages come from four
sides: calls of clients, packets from the stream, notifications of timers
(`ctx.notify`), and the result of a future the loop spawned (an automatic
ping). `status` decides which handlers see a call or a packet; the tables of
`LoopData` carry what has to be remembered between messages, and those marked
REUSABLE outlive a connection. The publish handlers write to the `Persistence`
store as they change their tables. The `StreamHandler` of the loop is empty, so
a lost connection shows only when a ping times out.

### What is hard about it

* **Interleaving of one actor's messages.** A handler is atomic, but a
  connection attempt, its timeout, a ping and its timeout are each several
  messages, and all of them act on one `status`. A timeout does not say which
  attempt it belongs to.
* **Senders.** Each call is answered by whoever holds its sender: `status`,
  `ping_subs`, `one_time`, `client_publish_state`. A sender that is overwritten
  or dropped is a caller that gets `LoopCommsError`; one that is kept after its
  answer is a leak; one that is kept for ever is a future that hangs.
* **Tables and acknowledgements.** Flows are matched by packet identifiers,
  which repeat, over connections that end in the middle of a flow.
* **Failure in the middle.** Handlers leave with `?` after some of their work;
  a store operation fails or the process stops between two of them.
* **Bytes in pieces.** The decoder sees a packet in as many reads as the network
  likes, counts lengths down with unsigned numbers, and puts back what it cannot
  use into a buffer that does not grow.
* **Liveness.** Who makes the next step, when the peer says nothing.

`PROJECT.json` lists these places one by one under `hazards`.

### What makes each part correct

* Life cycle: a call waits exactly while the loop holds its sender, and loses it
  only for a known cause; a timed attempt keeps its timer; no CONNACK meets a
  connected loop.
* Keep-alive: one PINGREQ in flight; a keep-alive that runs goes on, and notices
  a dead stream.
* Publish flows: what is in flight is in the store and nothing else is; callers
  stay tracked; a success means the server has the message; QoS 2 is delivered
  once at most, and not lost once the server has released it.
* Subscriptions: the table agrees with the broker when nothing is under way; a
  message finds a stream; each stream has an owner; an acknowledgement finds the
  request it answers, and a caller loses its answer only for a known cause.
* Store: the five rules of the trait, and files that change only as the caller was
  told.
* Framing: packets come out one by one as they were sent, however they were cut;
  an error or a panic has a cause in what was sent; numbers and packets are
  written as MQTT asks.
* Filters: a filter matches what MQTT says it covers, and no more.

## 2. Modules

`Session`, `PublishFlows` and `Subscriptions` model one actor from three sides.
They share no variable except through an abstraction of the other side, named
below; composing them is the first item left in the plan. `Framing` models the codec
below all of them, and `Packets`, `Parsers`, `Vle` and `TopicFilters` are pure:
they have operators and no variables.

### Session

`status` is `Loop.status`, with the two states of Disconnecting as "Waiting" and
"Closing"; `holder` is the call whose sender the status carries. `reply[c]` is
what the future of call c has resolved to. A dropped oneshot sender is the
answer "lost". `connTimers`, `discTimers` and `pingTimers` are the notifications
under way. `timer` is `Loop.timer`: "Armed" has a pending PingRequest behind it,
"Stale" is a handle whose notification has fired. `loose` counts pending
PingRequests that no handle tracks, which `timer.or(Some(ctx.notify(..)))` makes
because its argument is evaluated first.

Each Connect that starts an attempt brings a stream of its own, as
`Client::connect` takes one. The server is lawful: it answers a CONNECT and a
PINGREQ at most once. `OtherPacket` stands for every packet that other tables
handle: here only the keep-alive sees it. `PingCall` stands for every client
request as far as `status` goes.

`Loop::local` sets `status` to `Some(Disconnected)`, but only `None` accepts a
Connect, and Disconnected is absorbing. So the constants `InitStatus` and
`InitTimer` say how the loop starts: the runs use the values the handlers expect
(None, Armed), and the theorems hold for those and for the constructor's.

Not modelled: a keep-alive interval of 0 (the code schedules pings all the
same); the construction of an actor from a Config.

### PublishFlows

`sent` is `client_publish_state`, `received` is `server_publish_state`, `store`
is what the persistence store holds (through the contract of `PacketStore`: a
key for each packet). `delivered[x]` counts how often a message reached its
subscribers. The server keeps the session and repeats what is not settled when
the client comes back. It is external: `got`, `unreleased` and `phase` are its
state, and its rules are those the handlers of the client rely on.

The handler sends every publish under the literal identifier 4
(`outbound_handlers.rs:97`); its `packet`, whose identifier is the key of the flow,
is not declared, and is taken to be the packet that is sent. `IdOf` says under which identifier a message goes:
`OwnIdentifier` gives each message one, `OneIdentifier` is the code. What the
flows promise is checked for the first; what holds for the code, for the second.

The calls on the store in the handlers use an earlier interface (`append`, `put`
returning a key). They are modelled by what both interfaces agree on. Not
modelled: a QoS 0 publish of the client, which changes no table, and
`publish_handler` in `outbound_handlers.rs`, left from before the migration.

### Delivery

What the flows promise, without packets, identifiers or tables: a call succeeds
only once the server has taken the message (QoS 1 and 2), and a QoS 2 message of
the server is held before the server lets go of it, stays held until it is passed
on, and is passed on once. `PublishFlows!Promise` is the refinement mapping:
`told` is what the futures say, `taken` what the server has, `held` the keys of
`received`, `released` what the server no longer has to send.

### Subscriptions

`oneTime` is `one_time`, as the inbound handlers use it: key to packet and
sender. `nextPacketId` is unbounded, as the `usize` of the code almost is, and
`WireId` is the part of it that fits in the packet (`IdSpace` stands for 2^16).
The identifier 0, which MQTT does not allow, is the first one used. `Break`
loses what is on the stream and leaves the tables. `MatchedBy`, `TooLong` and
`Unparsable` stand for `match_topic`, `MqttString::from_str` and
`TopicFilter::from_string`; `CoveredBy` is what MQTT has the broker send.
`MCSubscriptions` takes them from `TopicFilters`, for the filters `+/+` and `a/#`.
A filter that is granted and Unparsable leaves `sub_ack_handler` in the middle
through its `?`.

`Next` assumes that the counter does not come round to an identifier that is
still in flight: 65536 requests without one answer. It may come round to the
identifier of a request that a lost connection left in the table.

### PacketStore and FsPersistence

`PacketStore` is the documentation of the trait as a specification: what each
operation does to the packets of the open store, that it does all or nothing,
and that they survive a restart. `FsPersistence` is the code: a cache in front of
files. `current_store.with_file_name(key)` puts the files of all stores into the
root directory, and nothing creates the directory of the store, so `keys` and
`clear` fail to list it. The refinement mapping shows the cache first and the
files behind it.

The caller opens a store before it uses it. Data that the operating system holds
back (no fsync) is not modelled. The variable `faults`, chosen at the start, says
what can go wrong in a behaviour: "io" an operation of the file system fails,
"crash" the program stops in the middle of `put`. `contains` takes some failures
for a file that does not exist (`Unseen`).

### TopicFilters

A filter and a name are sequences of levels, and a level a sequence of
characters. `legal` is what the two expressions at the top of the file let pass,
`match_topic` is the expression `from_string` builds, level by level, applied to
a name. `Covers` is the rule of MQTT, and no code. Not modelled: names that begin
with `$`, and an expression the regex crate refuses for its size.

### Vle, Packets and Parsers

`Vle` has the numbers of variable length. `Packets` has the packets of the client
and `encode`, with the two buffers of fixed size it writes to: `put` panics where
there is no room. `Headers::set` is `unimplemented!()`; it is taken to append what
`fmt_header` of the header writes. `Parsers` has the parser: each operator
returns Done with the rest of the bytes, Incomplete or Error, as nom does.

The type and the flags of a packet share a byte, and the parser reads each with
`bits!`, which gives up what is left of a byte. So the program as written takes the flags from
the second byte and the length from the third, and no packet gets through
(`DocWholePacket`, and `NothingGetsThrough`, which is proved). The variable `halves`, chosen at the start, says which
reading a behaviour follows: "dropped" is the program, "kept" reads the flags
where the parser means to. What else can be said about the parsers and the
decoder is checked for "kept".

### Framing

`wire` are the bytes the network still has, `buf` and `window` the BytesMut of
FramedRead: what it holds, and the room it has with that. `Read` and the buffer's
`reserve` are external (tokio-io and bytes). `Decode` is `MqttCodec::decode`,
which takes all bytes out of the buffer, parses them and puts the rest back. An
unsigned number that goes below zero panics in a debug build and asks for more
bytes than there will ever be in a release build, so both are steps. A behaviour
has a script of the server, or requests of the client, or a length, as the three
share nothing.

The assumption of the module says what scripts and requests may be. A server keeps
to MQTT (`Lawful`): headers and payload are those of the type, no length is above
the maximum, at most one byte more is spent on a length than it needs, and the first
packet is a CONNACK (`Greeting`). It may send a type that no server has (`Foreign`),
be it one of a client or none at all. A client sends what the constructors of
`MqttPacket` make, where the payload is of the kind the type has and an
acknowledgement has the two bytes of its identifier for a header.

## 3. What the runs check

Passing runs:

| Run | Shows |
|---|---|
| `SessionLoop` | Two connects, two disconnects, a ping call and two automatic pings in any order: `WaitingIsHeld`, `LostOnlyToTimeout`, `ErrorIsHandedOut`, `TimedAttemptHasTimer`, `ConnAckFindsAttempt`, `OnePingInFlight`, `KeepAliveGoesOn`, `TypeOK`. With a server that may stay silent, `TimedConnectResolves`, and `DeadStreamNoticed`: the running keep-alive takes a loop with a broken stream out of Connected. |
| `PublishOwnIds` | With an identifier per message and a working store: `NoOrphans`, `NeverPanics`, `OkMeansTaken`, over two reconnections, the refinement of `Delivery` (`KeepsPromises`), and `PublishResolves` on a connection that holds. |
| `PublishOneId` | With the identifier of the code, failing stores and a crash: `InFlightIsPersisted`, `WaitingIsTracked`, `AtMostOnce`, `TypeOK`. |
| `SubscribeStrict` | Batches of `+/+` and `a/#` and a lost connection: `NothingFallsThrough`, `OnlyHashOverhears`, `TablesAgree`, `NoOrphanStreams`. |
| `SubscribeReuse` | Two identifiers for three calls, filters that are refused on either side: `WaitingIsTracked`, `AckFindsRequest`, `RequestsResolve`, `TypeOK`, and `LostOnlyToReuseOrRefusal`: a caller loses its answer only to a later request under its identifier, or to a granted filter that `TopicFilter` refuses. |
| `FsStore` | One store, on machines with every combination of faults: without faults `FsPersistence` implements `PacketStore` (`KeepsContract`); `CacheIsBacked` as long as the file system does not fail; with all faults `FilesFollowAnswers`: a file changes only as the caller was told; `TypeOK`. |
| `Framing` | Up to three packets of a server cut into pieces in every way: `InStep`, `AllIsDecoded`, `ErrorsAreForeign`, `CrashNeedsMany`. Packets of a client: `EncodesAsMqtt`. Numbers at the boundaries of their sizes: `LengthReadsBack`. `TypeOK`. |

Every property of a passing run has a mutant in `PROJECT.json`: a plausible bug
in the code that this run finds. The definitions marked "Mutant:" in the modules
are used by nothing else.

Runs named `Doc...` each check one sentence of the documentation that the code
does not keep, and end in a counterexample. The findings in `PROJECT.json` quote
the sentences.

| Run | Counterexample |
|---|---|
| `DocUntimed` | The CONNECT of a timed attempt cannot be sent, and its timeout stays pending. The next attempt has no timeout, and the old one ends it (`UntimedNeverTimesOut`). |
| `DocServerFlow` | A PUBREC is lost with its connection. The server repeats the QoS 2 PUBLISH, the handler takes that for an error, and the flow never completes (`ServerFlowCompletes`). |
| `DocPubRecCrash` | The process stops after `pub_rec_handler` has removed the PUBLISH from the store and before it has added the PUBREL: the flow is in neither form in the store (`UnreleasedIsPersisted`). |
| `DocWholePacket` | A CONNACK arrives in one read. The flags are read from its second byte and the length from its third, so the parser finds one byte where the headers need two, and the decoder asks for more (`WholePacketIsReturned`). With the flags read where the parser means to (`halves = "kept"`) the same run finds nothing. |
| `DocFsTwoStores` | A packet put into the store of one client shows in the store of another (`KeepsContract`). |

### Other differences

Reading the code for these models also showed the following. The modules follow
the code in each case; no run is spent on them.

* A new loop refuses every connect, because `Loop::local` starts it in
  `Disconnected`, and no timer is armed, as `self.timer.map(..)` needs one
  (`client.rs:115`, `client.rs:41`).
* A request that finds the status `None`, before the first connect or after a
  connect timeout, meets `unreachable!()` (`mqtt_loop.rs:179`; action `Panic`).
* A stale ConnectTimeout swallows a pending error (`connect.rs:92`);
  `ErrorIsHandedOut` says that nothing else does.
* A ping on a new connection waits behind the senders that `ping_subs` kept from
  the old one, and no PINGREQ is sent (`outbound_handlers.rs:56`). Each answered
  automatic ping adds a timer nobody tracks (`ping.rs:58`).
* The future of a disconnect with a timeout never resolves, as DisconnectTimeout
  is a TODO (`disconnect.rs:72`), and PUBLISH packets that come while it waits are
  dropped (`response.rs:90`), though `client.rs:189` says streams still receive.
* The stream of missed messages is returned when the server has no session
  (`response.rs:61`), and `session_subs` would feed it but is never read.
* One identifier for all messages mixes flows up: an answer to one meets the
  other (`outbound_handlers.rs:97`). `NeverPanics` and `OkMeansTaken` hold only
  for an identifier of its own per message.
* No handler reads the store after a restart (`mqtt_loop.rs:73`).
* A second subscription to a filter ends the first stream
  (`inbound_handlers.rs:42`). A lost connection ends none.
* `put` leaves its packet in the cache when the file cannot be written, and takes
  an empty cache for an empty store after a restart, so that it writes over a
  packet that survived (`fs.rs:45-54`). `remove` refuses a packet that is on disk
  only, `clear` and `keys` list a directory that does not exist.
* A PUBLISH of QoS 0 is read with an identifier it does not have, and a short one underflows
  (`parsers.rs:147`, `parsers.rs:180`): `Told` and `Short` in `Framing` say how.
* The decoder panics when what it puts back finds no room. That takes more
  than about `sqrt(2 * Capacity)` bytes, if they come one by one; with a buffer
  of 8 kB that is 127 bytes (`codec.rs:31-34`).
* `encode` panics on a packet of more than 4096 bytes, and
  `PacketEncodingError`, for one of more than 256 MB, is never returned
  (`mod.rs:296`, `codec.rs:19`). The reserve of a SUBSCRIBE forgets the length of its topic
  (`types.rs:324`).
* The payload of a PUBLISH is not encoded (`types.rs:334`). The message of a will
  has no length before it (`types.rs:312`), its QoS is not shifted, so that QoS 2
  sets CLEAN_SESS, and WILL_FLAG is never set (`types.rs:225`). A topic that was
  parsed has no length if it is encoded again (`parsers.rs:114`).
* The filter `a/#` matches `ab` (`topic_filter.rs:29`), which `OnlyHashOverhears`
  allows for; `+` does not match an empty level (`topic_filter.rs:27`), which
  `NothingFallsThrough` leaves out.

### Bounds

| Constant | Value | Why it is enough |
|---|---|---|
| `Connects`, `Disconnects` | 2, 2 | a notification of one attempt meets the next; a disconnect with a timeout and one without |
| `Pings` | 2 | one automatic ping whose timeout is pending while another is answered |
| `MaxLoose` | 1 | one PingRequest no handle tracks beside the tracked one; `PingResponse` waits at the bound, and `DeadStreamNoticed` names that case (`PingsAreUsedUp`), which needs a second connection |
| `Out1`, `Out2` | 1 and 2 in `PublishOneId`, 1 and 1 in `PublishOwnIds` | under one identifier, two flows of one QoS and a mixed pair; under identifiers of their own flows do not meet |
| `MaxReconnects`, `MaxRestarts` | 2, 1 | a repetition of a repetition; one restart empties everything that two would |
| `Calls`, `MaxBatch` (subscriptions) | 3, 2 | subscribe, unsubscribe, subscribe to one filter; a partial failure inside a batch |
| `IdSpace` | 2 where identifiers return, 3 where they do not | three calls come round to a kept request |
| `MaxInbox` | 2, 0 in `SubscribeReuse` | how many packets may be under way when the broker adds a message; acknowledgements are not bounded by it |
| `Filters`, `Names` | `+/+`, `a/#`; `a/b/c`, `ab/c`, `/c` | a name each filter covers alone, one that `a/#` overhears, one with an empty level |
| `Stores`, `Keys`, `Packets` | 1, 3, 2 (`DocFsTwoStores`: 2, 1, 2) | a key beside one that is cached and one that is not; a packet that differs from the one under the key. With one key the stores already disagree |
| `Capacity` | 54 in place of 8192 | ten bytes that come one by one are too many: some scripts make the decoder panic, and shorter ones get through |
| `PacketRoom`, `PayloadRoom` | 19, 14 in place of 4096, 2048 | some packets of three topics fit and some do not, in either buffer |
| `Scripts` | a CONNACK (`DocWholePacket`), then up to two packets of every kind a server sends, one with a wide length, one of QoS 0, one too short, one of no type, one that only a client sends | each packet ends in the middle of a read that brings the next |
| `Requests` | every packet a client sends, alone: CONNECT with and without credentials and a will, PUBLISH with and without a message, SUBSCRIBE and UNSUBSCRIBE of up to three topics | each part of a payload is there and is not; a packet does not depend on the one before |
| `Lengths` | the four sizes of a number, and one before and after each | every branch of the encoding |

Runs with a finite number of calls say `CHECK_DEADLOCK FALSE`: when the calls are
used up and nothing is under way, an actor really has nothing to do. The runs of
`FsPersistence` check for deadlock. `SubscribeStrict`, which checks no liveness,
uses the symmetry of calls, which are interchangeable until they are made.

### Fairness

* `Session`: weak fairness of the notifications of attempts and of pings. actix
  delivers a notification that is due, and the handler is enabled until it ran.
  The client, the server and the network owe the loop nothing. The answer to a
  ping and the TODO of DisconnectTimeout need no fairness for what is checked.
* `PublishFlows`: weak fairness of `Receive` (the reactor polls the stream) and
  of the server, a broken stream is noticed, and the user connects again.
  `PublishResolves` promises nothing once the stream broke. `ServerFlowCompletes`
  is violated even under all of this.
* `Subscriptions`: weak fairness of `Receive` and of the broker's answers;
  `RequestsResolve` promises nothing once a connection was lost.
* `Framing`: weak fairness of `Read` or `Decode`. The network brings what was
  sent, and FramedRead decodes until the decoder asks for more.

## 4. What is proved

The proofs hold for all values of the constants that satisfy the assumption each
module names, which only says that sets are disjoint or finite, that bounds are
numbers and that marker values are different from the rest. What a theorem
assumes beyond that is in the third column, and stands in its statement. A
property in parentheses is checked by no run.

| Theorem | Property | Under |
|---|---|---|
| `SessionProofs!TypeCorrect` | `TypeOK` | |
| `SessionProofs!CallersAreHeld` | `WaitingIsHeld`, (`StatusCarriesCall`) | |
| `SessionProofs!TimeoutIsArmed` | `TimedAttemptHasTimer` | |
| `SessionProofs!ConnAckIsExpected` | `ConnAckFindsAttempt` | |
| `SessionProofs!PingsAreCoalesced` | `OnePingInFlight` | |
| `SessionProofs!KeepAliveIsKept` | `KeepAliveGoesOn` | |
| `SessionProofs!LossIsExplained` | `LostOnlyToTimeout` | |
| `SessionProofs!ErrorsAreHandedOut` | `ErrorIsHandedOut` | |
| `SessionProofs!DisconnectsAreOnlyLost` | (`DisconnectIsOnlyLost`) | |
| `SessionProofs!NoWayBack` | (`DisconnectedIsFinal`) | |
| `FsPersistenceProofs!TypeCorrect` | `TypeOK` | |
| `FsPersistenceProofs!CacheCanBeTrusted` | `CacheIsBacked` | |
| `FsPersistenceProofs!FilesAreAccounted` | `FilesFollowAnswers` | |
| `FsPersistenceProofs!ContractIsKept` | `KeepsContract` | one store |
| `PublishFlowsProofs!FlowsArePersisted` | `InFlightIsPersisted` | |
| `PublishFlowsProofs!WaitersAreTracked` | `WaitingIsTracked` | |
| `DeliveryProofs!TypeCorrect` | `TypeOK` | |
| `DeliveryProofs!DeliveredOnce` | `AtMostOnce` | |
| `DeliveryProofs!OkIsTaken` | `OkMeansTaken` | an identifier per message |
| `DeliveryProofs!HandlersDoNotPanic` | `NeverPanics` | an identifier per message |
| `DeliveryProofs!NothingIsDropped` | (`ReleasedIsKept`) | no restart |
| `DeliveryProofs!PromisesAreKept` | `KeepsPromises` | an identifier per message, no restart |
| `DeliveryProofs!NothingIsLeft` | `NoOrphans` | an identifier per message, no restart, a store that works |
| `SubscriptionsProofs!WaitersAreTracked` | `WaitingIsTracked` | |
| `SubscriptionsProofs!TypeCorrect` | `TypeOK` | |
| `SubscriptionsProofs!AcksFindRequests` | `AckFindsRequest` | |
| `SubscriptionsProofs!LossIsExplained` | `LostOnlyToReuseOrRefusal` | |
| `SubscriptionsProofs!StreamsAreHeld` | `NoOrphanStreams` | `TopicFilter` accepts all filters |
| `SubscriptionsProofs!TablesAreKept` | `TablesAgree` | the same, clean sessions and nothing subscribed before |
| `SubscriptionsProofs!MessagesAreHeard` | `NothingFallsThrough` | the same, and a filter misses only names with an empty level |
| `SubscriptionsProofs!HashesOverhear` | `OnlyHashOverhears` | a filter without `#` matches only what it covers |
| `TopicFilterProofs!NothingIsMissed` | that a legal filter matches each name it covers that has no empty level | |
| `TopicFilterProofs!OnlyHashIsLoose` | that a filter without `#` matches only what it covers | |
| `VleProofs!NumbersReadBack` | that every number is decoded as it was encoded, and a proper part of it is incomplete | |
| `FramingProofs!Typing` | `TypeOK` | |
| `FramingProofs!InStepHolds` | `InStep` | |
| `FramingProofs!OnlyForeignPacketsFail` | `ErrorsAreForeign` | |
| `FramingProofs!CrashTakesManyBytes` | `CrashNeedsMany` | |
| `FramingProofs!NothingEverGetsThrough` | (`NothingGetsThrough`) | |
| `FramingProofs!PacketsAreLaidOut` | `EncodesAsMqtt` | |
| `FramingProofs!LengthsReadBack` | `LengthReadsBack` | |

The properties of `FsPersistence` name the behaviours they are about, by the
variable `faults`: `CacheIsBacked` those without "io", `KeepsContract` those
without any fault (a restart at rest is none), `FilesFollowAnswers` all.
The properties of `Framing` name the reading of half a byte, by the variable
`halves`: `NothingGetsThrough` is about the program as written, the others of the
decoder are about the reading it means to have. `EncodesAsMqtt` is about packets that fit both buffers
(`Fits`) and of whose payload nothing is left out (`IsComplete`).

The arguments:

* **Session.** The inductive invariant has three layers, each kept on the
  strength of those before it: types; who holds which sender (`Held`); and what
  is pending (`Timing`). `TimedAttemptHasTimer` needs the second layer, as a
  stale ConnectTimeout acts on the attempt it finds. `ConnAckFindsAttempt` and
  `OnePingInFlight` need each other: a CONNECT under way excludes a PINGREQ,
  since a fresh stream carries only the CONNECT. The action properties follow
  from the invariant, one action at a time.
* **PublishFlows, the tables.** `InFlightIsPersisted` is not inductive, as removing
  the packet of one flow might remove the packet of another. `OneFlowEach` (a
  message has one flow) and `FlowsAreStarted` (a message that has a flow was
  published, so it is not published again) exclude that. The theorems cover the
  literal identifier of the code and all faults.
* **PublishFlows, the streams.** `Taken` says what an acknowledgement under way
  means: the server has the message. It needs an identifier of its own for each
  message, as an acknowledgement under a shared one answers the wrong flow.
  `Flows` follows a QoS 2 message of the server through its PUBLISH, PUBREC, PUBREL and
  PUBCOMP: at most one PUBREL that matters is under way, and only while the message
  is held. It needs no such thing, so `AtMostOnce` holds for the code as it is.
  `Kept` adds that a message the server let go of is held, which a restart
  breaks. The refinement of `Delivery` puts the three together. `Tidy` and
  `Turns` say what is left in the store of each flow, and that an answer under
  way finds the state it is for.
* **Subscriptions.** `Named` (no entry of the table names a call that is still to
  be made) keeps the key of a caller unique when its call begins to wait.
  `Traffic` adds that each packet under way has its entry and no twin, which is
  what `AckFindsRequest` comes from. `Alone` and `Fed` say that a stream has one call
  behind it and that its reading end is held. No
  request is displaced before a connection is lost (`Unlost`), and a key that is
  used again belongs to a later call (`DisplacedIsOld`), which leaves two causes for a
  lost answer. With filters that are accepted, `Agree` says that the table of the loop, with the acknowledgements under way applied to it in their
  order, is the table of the broker. An acknowledgement added at the end and one taken from the
  front both keep that.
* **TopicFilters** meet `Subscriptions` in its assumptions: `NothingIsMissed` and
  `OnlyHashIsLoose` are what `MessagesAreHeard` and `HashesOverhear` assume of a
  filter.
* **Vle.** A number is the sum of its digits to the base 128 (`PlaceValues`), for
  each of the four lengths; the digits are then read one branch of `decode_vle`
  at a time.
* **FsPersistence.** With one store and no faults no file is torn and the cache
  is backed (`Whole`), so the mapping shows exactly the files, and each operation
  is the operation of the contract.

* **Framing, the parsers.** Each lemma is about a buffer `b` that agrees with the
  bytes of a packet as far as it goes (`Agree`), for any bytes and any cut:
  `SizeIsRead`, `HeadIsRead`, `PublishIsRead`, `CodesAreRead` and so on say what one
  parser makes of its part. `PacketIsRead` puts them together: of a packet that the
  parser knows it makes nothing before all of it is there, and then the packet and
  exactly the rest.
* **Framing, the decoder.** The invariant `DecodeInv` says that while the stream is
  open, what is in the buffer followed by what is on the wire is the stream of the
  packets that are left (`OnStream`). `StreamIsRead` takes the first packet off such
  a stream; that the parser leaves the rest of the buffer is what keeps the
  invariant. `InStep` and `ErrorsAreForeign` follow from it. With the half byte
  dropped (`NothingGetsThrough`), the buffer is always a beginning of the whole
  stream. The parser takes the third byte, the first header of the CONNACK, for the
  length: it is 0 or 1, less than the two headers need, so that wherever the bytes
  are cut it asks for more or goes below zero (`NothingIsRead`).
* **Framing, the room.** Each call of the decoder takes the bytes of the buffer from
  its room, and puts back less or as much. `Budget` bounds the room that was used up
  since the last `reserve` by the triangular numbers of the bytes that were read
  (`Triangle`): a call that finds `n` bytes costs `n`, and no more calls find so many than
  when the bytes come one by one. `ReadIsPaid` and `TellingIsPaid` are the two
  steps. A put without room therefore comes only after `CrashNeedsMany` bytes, or
  when a short message of QoS 0 makes the parser ask for more than there is.
* **Framing, the encoder.** `WriteInv` says that what was written is `encode` of the
  request. What `encode` makes of it is a fold over headers and topics. `FoldExists`
  gives the partial results of a fold, and `Accumulates` follows them: a buffer that
  has written `x`, and has room for the next part, has written `x` and the part
  (`Wrote`). An acknowledgement, laid out so, is what `PacketIsRead` is about.

Some of these are inductions over a sequence: its flattening, its fold, its partial
sums. The library's induction rules take an operator, which the provers cannot
instantiate. `Counting` does with a set what they do with an operator: it says that
a set that has 0 and with each number the next has all numbers, which follows from
the well-foundedness of the numbers. A set of numbers `{n \in Nat : P(n)}` needs no
operator to be passed.

Only model-checked: all liveness (`TimedConnectResolves`, `DeadStreamNoticed`,
`PublishResolves`, `RequestsResolve`, `AllIsDecoded`), since fairness is out of the
prover's reach, and what the `Doc...` runs refute, which is false.

## 5. Plan

Done: `Session`, `PacketStore` with `FsPersistence`, `PublishFlows` with
`Delivery`, `Subscriptions`, `TopicFilters`, `Vle`, `Packets`, `Parsers` and
`Framing`, and the proofs of every safety property the passing runs check.

Left, in this order:

1. **Client**: a composition in which one `status` dispatches packets to the
   handlers of `PublishFlows` and `Subscriptions`, in place of the abstraction
   each now has of the other, with calls of all kinds interleaved.
2. **Headers**: what `Header::parse_header` makes of the fields a packet brings,
   and `Config::validate`.

Not planned: the fragment in `backend/connection.rs` and the empty traits of
`backend/actor`, which do nothing yet; polling of futures; TLS and socket I/O,
which the crate leaves to its user.

## 6. Running it

    tlc -workers 2 -config SessionLoop.cfg Session.tla
    tlc -workers 2 -config SubscribeStrict.cfg MCSubscriptions.tla
    tlc -workers 2 -config Framing.cfg MCFraming.tla
    tlapm SessionProofs.tla
    tlapm SubscriptionsProofs.tla
    tlapm FramingProofs.tla

`PROJECT.json` names the module and the configuration of each run. The longest,
`SessionLoop`, has 1 180 000 distinct states and takes three to four minutes.
