------------------------------ MODULE Session ------------------------------
(***************************************************************************)
(* The connection life cycle of the Loop actor: its status, the calls that *)
(* wait for an answer, its three kinds of timers and its pings.            *)
(*                                                                         *)
(* The actor takes one message at a time and every handler runs to its end *)
(* (backend/mqtt_loop.rs), so a handler is one action.  The client makes   *)
(* calls, the server answers on an ordered, lossless stream, timers fire,  *)
(* and the stream can break: these interleave in any order.                *)
(*                                                                         *)
(* A call owns one oneshot channel.  reply[c] is what its receiver sees;   *)
(* "lost" is a sender dropped without an answer, which MqttFuture turns    *)
(* into LoopCommsError.  Errors are named, not built.                      *)
(*                                                                         *)
(* External: each Connect call brings its own stream (the `io` argument of *)
(* Client::connect), so what an earlier stream still carried is gone; the  *)
(* server answers a CONNECT at most once and a PINGREQ at most once.       *)
(***************************************************************************)
EXTENDS Naturals

CONSTANTS
  Connects,     \* calls of Client::connect, each made at most once
  Disconnects,  \* calls of Client::disconnect
  PingCalls,    \* calls of Client::ping
  Timed,        \* the connect and disconnect calls that carry a timeout
  Pings,        \* automatic pings alive at the same time (a bound)
  MaxLoose,     \* keep-alive notifications nobody can cancel (a bound)
  NoCall,       \* no call is waiting on the status
  Dead,         \* a ping sender whose receiver is already gone
  InitStatus,   \* `status` and `timer` as the loop starts; what
  InitTimer     \* Loop::local writes is "Disconnected" and "None"

Calls == Connects \cup Disconnects \cup PingCalls

ASSUME SessionAssumption ==
  /\ Connects \cap Disconnects = {}
  /\ (Connects \cup Disconnects) \cap PingCalls = {}
  /\ Timed \subseteq Connects \cup Disconnects
  /\ NoCall \notin Calls
  /\ Calls \cap Pings = {}
  /\ Dead \notin Calls \cup Pings
  /\ MaxLoose \in Nat
  /\ InitStatus \in {"None", "Disconnected"}
  /\ InitTimer \in {"None", "Armed"}

VARIABLES
  status,      \* Loop.status, Disconnecting split in its two states;
               \* "Crashed" once a handler has panicked
  holder,      \* the call whose sender the status carries
  reply,       \* call -> what its future has resolved to
  connTimers,  \* pending ConnectTimeout notifications, by the call they serve
  discTimers,  \* pending DisconnectTimeout notifications
  pingSubs,    \* LoopData.ping_subs: senders waiting for a PINGRESP
  pingTimers,  \* pending PingTimeout notifications
  pongs,       \* answered pings whose PingResponse is still to be handled
  timer,       \* Loop.timer: no handle, a pending PingRequest, a fired one
  loose,       \* pending PingRequests whose handle was dropped
  link,        \* the stream: "open" while it accepts packets, or "broken"
  connectsOut, \* CONNECTs the server has not answered
  pingsOut     \* PINGREQs the server has not answered

life      == <<status, holder>>
pings     == <<pingSubs, pingTimers, pongs>>
keepAlive == <<timer, loose>>
stream    == <<link, connectsOut, pingsOut>>
vars == <<life, reply, connTimers, discTimers, pings, keepAlive, stream>>

Statuses == {"None", "Disconnected", "Connecting", "Connected",
             "Waiting", "Closing", "PendingError", "Crashed"}
Answers  == {"ok", "stream", "unavailable", "alreadyConnected", "loopError",
             "refused", "timedOut", "pingTimedOut", "lost"}

TypeOK ==
  /\ status \in Statuses
  /\ holder \in Calls \cup {NoCall}
  /\ reply \in [Calls -> Answers \cup {"idle", "waiting"}]
  /\ connTimers \subseteq Connects
  /\ discTimers \subseteq Disconnects
  /\ pingSubs \subseteq PingCalls \cup Pings \cup {Dead}
  /\ pingTimers \subseteq Pings
  /\ pongs \subseteq Pings
  /\ timer \in {"None", "Armed", "Stale"}
  /\ loose \in Nat
  /\ link \in {"open", "broken"}
  /\ connectsOut \in {0, 1}
  /\ pingsOut \in Nat

Init ==
  /\ status = InitStatus
  /\ holder = NoCall
  /\ reply = [c \in Calls |-> "idle"]
  /\ connTimers = {} /\ discTimers = {}
  /\ pingSubs = {} /\ pingTimers = {} /\ pongs = {}
  /\ timer = InitTimer /\ loose = 0
  /\ link = "broken" /\ connectsOut = 0 /\ pingsOut = 0

-----------------------------------------------------------------------------
(* What the handlers share.                                                *)

Live == status # "Crashed"

Answer(c, v) == reply' = [reply EXCEPT ![c] = v]

\* The calls of S that still wait resolve to v.
AnswerAll(S, v) ==
  reply' = [c \in Calls |-> IF c \in S /\ reply[c] = "waiting" THEN v ELSE reply[c]]

CloseStream == link' = "broken" /\ connectsOut' = 0 /\ pingsOut' = 0

\* Mutant: a handle whose notification has fired is left as it is.
RearmPending == timer' = IF timer = "Armed" THEN "Armed" ELSE timer

\* self.timer.map(cancel and notify again): a loop without a handle has no
\* keep-alive, one with a handle, fired or not, gets a new pending one.
Rearm == timer' = IF timer = "None" THEN "None" ELSE "Armed"

\* Mutant: the status is taken to look at it, as in a pending error.
RefuseTakes(c) ==
  /\ status \in {"Connecting", "Disconnected", "Waiting", "Closing"}
  /\ reply' = [x \in Calls |->
       IF x = c THEN "unavailable" ELSE IF x = holder THEN "lost" ELSE reply[x]]
  /\ status' = "None" /\ holder' = NoCall

\* A call that finds the loop in one of these states is turned away.
Refuse(c) ==
  /\ status \in {"Connecting", "Disconnected", "Waiting", "Closing"}
  /\ Answer(c, "unavailable")
  /\ UNCHANGED life

\* Mutant: the error is taken from the status and dropped.
TakeErrorUnseen(c, next) ==
  /\ status = "PendingError"
  /\ Answer(c, "unavailable")
  /\ status' = next
  /\ UNCHANGED holder

\* A pending error is handed to the first call that comes.
TakeError(c, next) ==
  /\ status = "PendingError"
  /\ Answer(c, "pingTimedOut")
  /\ status' = next
  /\ UNCHANGED holder

\* `None => unreachable!()`: the actor dies and drops all it holds.
Panic(c) ==
  /\ status = "None"
  /\ status' = "Crashed" /\ holder' = NoCall
  /\ reply' = [x \in Calls |->
                 IF x = c \/ reply[x] = "waiting" THEN "lost" ELSE reply[x]]
  /\ connTimers' = {} /\ discTimers' = {}
  /\ pingSubs' = {} /\ pingTimers' = {} /\ pongs' = {}
  /\ timer' = "None" /\ loose' = 0
  /\ CloseStream

-----------------------------------------------------------------------------
(* Connecting.                                                             *)

\* Mutant: a notification that is pending already serves this attempt too.
RequestTimeoutOnce(c) ==
  connTimers' = IF connTimers = {} THEN {c} \cap Timed ELSE connTimers

RequestTimeout(c) == connTimers' = connTimers \cup ({c} \cap Timed)

\* Mutant: the packet is sent before the status is looked at.
ConnectSendsFirst(c) ==
  /\ reply[c] = "idle"
  /\ link' = "open" /\ connectsOut' = 1 /\ pingsOut' = 0
  /\ \/ /\ status = "None"
        /\ RequestTimeout(c)
        /\ status' = "Connecting" /\ holder' = c /\ Answer(c, "waiting")
     \/ status # "None" /\ Answer(c, "unavailable") /\ UNCHANGED <<life, connTimers>>
  /\ UNCHANGED <<discTimers, pings, keepAlive>>

\* Mutant: the status is changed before the packet is sent, and a send that
\* fails leaves it so.
AttemptStatusFirst(c) ==
  /\ status' = "Connecting" /\ holder' = c
  /\ \/ Answer(c, "waiting") /\ link' = "open" /\ connectsOut' = 1 /\ pingsOut' = 0
     \/ Answer(c, "loopError") /\ CloseStream

\* The CONNECT goes out on the stream the call brought, or its send fails.
Attempt(c) ==
  \/ /\ status' = "Connecting" /\ holder' = c
     /\ Answer(c, "waiting")
     /\ link' = "open" /\ connectsOut' = 1 /\ pingsOut' = 0
  \/ Answer(c, "loopError") /\ CloseStream /\ UNCHANGED life

\* The timeout is requested before the packet is sent, so it stays behind
\* when the send fails.
Connect(c) ==
  /\ reply[c] = "idle"
  /\ \/ /\ \/ Refuse(c)
           \/ TakeError(c, "None")
           \/ status = "Connected" /\ Answer(c, "alreadyConnected") /\ UNCHANGED life
        /\ UNCHANGED <<connTimers, stream>>
     \/ /\ status = "None"
        /\ RequestTimeout(c)
        /\ Attempt(c)
  /\ UNCHANGED <<discTimers, pings, keepAlive>>

\* Mutant: the server is told first, and ? leaves the handler when that fails.
ConnectTimeoutTellsServer(c) ==
  /\ Live /\ c \in connTimers
  /\ connTimers' = connTimers \ {c}
  /\ IF status = "Connecting" /\ link = "open"
       THEN Answer(holder, "timedOut") /\ status' = "None" /\ holder' = NoCall
       ELSE UNCHANGED <<life, reply>>
  /\ UNCHANGED <<discTimers, pings, keepAlive, stream>>

\* ConnectTimeout does not look at which attempt armed it, and in
\* PendingError it takes the error although nobody waits for its reply.
ConnectTimeout(c) ==
  /\ Live /\ c \in connTimers
  /\ connTimers' = connTimers \ {c}
  /\ \/ /\ status = "Connecting"
        /\ Answer(holder, "timedOut")
        /\ status' = "None" /\ holder' = NoCall
     \/ status = "PendingError" /\ status' = "None" /\ UNCHANGED <<holder, reply>>
     \/ status \notin {"Connecting", "PendingError"} /\ UNCHANGED <<life, reply>>
  /\ UNCHANGED <<discTimers, pings, keepAlive, stream>>

\* ConnAckFlags::is_clean is true when the server has a session (SP).
is_clean(sp) == sp

\* CONNACK: accepted or refused by the server, with or without a session.
\* For a connected loop it is unreachable!(); see ConnAckFindsAttempt.
ConnAck(accepted, sp) ==
  /\ Live /\ connectsOut = 1
  /\ connectsOut' = 0
  /\ \/ /\ status = "Connecting"
        /\ connTimers' = connTimers \ {holder}
        /\ \/ accepted /\ status' = "Connected"
                       /\ Answer(holder, IF is_clean(sp) THEN "ok" ELSE "stream")
           \/ ~accepted /\ status' = "Disconnected" /\ Answer(holder, "refused")
        /\ holder' = NoCall
     \/ status \notin {"Connecting", "Connected"} /\ UNCHANGED <<life, reply, connTimers>>
  /\ Rearm
  /\ UNCHANGED <<discTimers, pings, loose, link, pingsOut>>

-----------------------------------------------------------------------------
(* Disconnecting.                                                          *)

\* With a timeout the loop waits for work to finish; without one it sends
\* DISCONNECT and closes at once.  If that send fails the caller is told,
\* and the status carries a sender nobody listens to.
Disconnect(c) ==
  /\ reply[c] = "idle"
  /\ \/ /\ Refuse(c) \/ TakeError(c, "None")
        /\ UNCHANGED <<connTimers, discTimers, pings, keepAlive, stream>>
     \/ /\ status = "Connected" /\ c \in Timed
        /\ status' = "Waiting" /\ holder' = c
        /\ discTimers' = discTimers \cup {c}
        /\ Answer(c, "waiting")
        /\ UNCHANGED <<connTimers, pings, keepAlive, stream>>
     \/ /\ status = "Connected" /\ c \notin Timed
        /\ status' = "Closing"
        /\ \/ link = "open" /\ holder' = c /\ Answer(c, "waiting")
           \/ link = "broken" /\ UNCHANGED holder /\ Answer(c, "loopError")
        /\ CloseStream
        /\ UNCHANGED <<connTimers, discTimers, pings, keepAlive>>
     \/ Panic(c)

\* The handler is a TODO: it does nothing.
DisconnectTimeout(c) ==
  /\ Live /\ c \in discTimers
  /\ discTimers' = discTimers \ {c}
  /\ UNCHANGED <<life, reply, connTimers, pings, keepAlive, stream>>

-----------------------------------------------------------------------------
(* Pings.                                                                  *)

\* Mutant: every ping is sent.
ping_req_handler_sends(sender) ==
  IF link = "open" THEN pingSubs' = pingSubs \cup {sender} /\ pingsOut' = pingsOut + 1
          ELSE pingSubs' = pingSubs \cup {Dead} /\ UNCHANGED pingsOut

\* A PINGREQ is sent only when nobody waits for a PINGRESP yet.  The sender
\* is queued before the send is tried, so a failed send leaves it behind.
ping_req_handler(sender) ==
  \/ /\ pingSubs # {} /\ pingSubs' = pingSubs \cup {sender}
     /\ UNCHANGED pingsOut
  \/ /\ pingSubs = {} /\ link = "open"
     /\ pingSubs' = {sender} /\ pingsOut' = pingsOut + 1
  \/ /\ pingSubs = {} /\ link = "broken"
     /\ pingSubs' = {Dead} /\ UNCHANGED pingsOut

\* A client request that is a ping, from Handler<ClientRequest>.
PingCall(c) ==
  /\ reply[c] = "idle"
  /\ \/ /\ Refuse(c) \/ TakeError(c, "Disconnected")
        /\ UNCHANGED <<connTimers, discTimers, pings, keepAlive, stream>>
     \/ /\ status = "Connected"
        /\ ping_req_handler(c)
        /\ \/ pingSubs = {} /\ link = "open" /\ Answer(c, "waiting") /\ Rearm
           \/ pingSubs = {} /\ link = "broken" /\ Answer(c, "loopError") /\ UNCHANGED timer
           \/ pingSubs # {} /\ Answer(c, "waiting") /\ UNCHANGED timer
        /\ UNCHANGED <<life, connTimers, discTimers, pingTimers, pongs,
                       loose, link, connectsOut>>
     \/ Panic(c)

\* Mutant: a notification can fire that is not pending.
PingDueUnguarded ==
  \/ timer = "Armed" /\ timer' = "Stale" /\ UNCHANGED loose
  \/ loose' = loose - 1 /\ UNCHANGED timer

\* The notification that fires is the tracked one, whose handle stays in
\* `timer`, or one of the loose ones.
PingDue ==
  \/ timer = "Armed" /\ timer' = "Stale" /\ UNCHANGED loose
  \/ loose > 0 /\ loose' = loose - 1 /\ UNCHANGED timer

PingRequest ==
  /\ Live /\ PingDue
  /\ \/ /\ status \in {"Connected", "Waiting"}
        /\ \E p \in Pings \ (pingSubs \cup pingTimers \cup pongs) :
             /\ pingTimers' = pingTimers \cup {p}
             /\ ping_req_handler(p)
     \/ /\ status \notin {"Connected", "Waiting"}
        /\ UNCHANGED <<pingTimers, pingSubs, pingsOut>>
  /\ UNCHANGED <<life, reply, connTimers, discTimers, pongs, link, connectsOut>>

\* Every status but two becomes PendingError; what it carried is dropped.
PingTimeout(p) ==
  /\ Live /\ p \in pingTimers
  /\ pingTimers' = pingTimers \ {p}
  /\ \/ status \in {"Disconnected", "PendingError"} /\ UNCHANGED <<life, reply>>
     \/ /\ status \notin {"Disconnected", "PendingError"}
        /\ status' = "PendingError" /\ holder' = NoCall
        /\ AnswerAll({holder}, "lost")
  /\ UNCHANGED <<connTimers, discTimers, pingSubs, pongs, keepAlive, stream>>

\* PINGRESP drains ping_subs, in the states that look at it.
PingResp ==
  /\ Live /\ pingsOut > 0
  /\ pingsOut' = pingsOut - 1
  /\ \/ /\ status \in {"Connected", "Waiting"}
        /\ pingSubs' = {} /\ pongs' = pongs \cup (pingSubs \cap Pings)
        /\ AnswerAll(pingSubs, "ok")
     \/ /\ status \notin {"Connected", "Waiting"}
        /\ UNCHANGED <<pingSubs, pongs, reply>>
  /\ Rearm
  /\ UNCHANGED <<life, connTimers, discTimers, pingTimers, loose, link, connectsOut>>

\* The future of an automatic ping resolved.  The argument of timer.or(..)
\* is evaluated first: a new PingRequest is scheduled in any case, and its
\* handle is dropped when `timer` has one already.
PingResponse(p) ==
  /\ Live /\ p \in pongs
  /\ pongs' = pongs \ {p}
  /\ pingTimers' = pingTimers \ {p}
  /\ \/ timer = "None" /\ timer' = "Armed" /\ UNCHANGED loose
     \/ timer # "None" /\ loose < MaxLoose /\ loose' = loose + 1 /\ UNCHANGED timer
  /\ UNCHANGED <<life, reply, connTimers, discTimers, pingSubs, stream>>

-----------------------------------------------------------------------------
(* The rest of the world.                                                  *)

\* A packet whose handler works on other tables of the loop, or that the
\* status ignores: here only the keep-alive sees it.
OtherPacket ==
  /\ Live /\ link = "open" /\ connectsOut = 0
  /\ Rearm
  /\ UNCHANGED <<life, reply, connTimers, discTimers, pings, loose, stream>>

\* The stream breaks.  The StreamHandler of the loop is empty, so the loop
\* is not told.
ConnectionLost ==
  /\ Live /\ link = "open"
  /\ CloseStream
  /\ UNCHANGED <<life, reply, connTimers, discTimers, pings, keepAlive>>

Next ==
  \/ \E c \in Connects : Connect(c) \/ ConnectTimeout(c)
  \/ \E c \in Disconnects : Disconnect(c) \/ DisconnectTimeout(c)
  \/ \E c \in PingCalls : PingCall(c)
  \/ \E accepted, sp \in BOOLEAN : ConnAck(accepted, sp)
  \/ PingRequest
  \/ \E p \in Pings : PingTimeout(p) \/ PingResponse(p)
  \/ PingResp
  \/ OtherPacket
  \/ ConnectionLost

Spec == Init /\ [][Next]_vars

\* The timers of attempts and of pings fire, as long as there are any.  The
\* client, the server and the network owe the loop nothing.
Fairness ==
  /\ WF_vars(\E c \in Connects : ConnectTimeout(c))
  /\ WF_vars(PingRequest)
  /\ WF_vars(\E p \in Pings : PingTimeout(p))

FairSpec == Spec /\ Fairness

-----------------------------------------------------------------------------
(* Safety.                                                                 *)

\* What the status carries: an attempt or a disconnect in progress has a
\* caller (loop state of mqtt_loop.rs:28-44), no other status has one.
StatusCarriesCall ==
  /\ status = "Connecting" => holder \in Connects
  /\ status = "Waiting" => holder \in Disconnects
  /\ status = "Closing" => holder \in Disconnects \cup {NoCall}
  /\ status \notin {"Connecting", "Waiting", "Closing"} => holder = NoCall

\* No caller is forgotten and none is held twice: a call waits exactly while
\* the status or ping_subs holds its sender.
WaitingIsHeld ==
  \A c \in Calls : reply[c] = "waiting" <=> c = holder \/ c \in pingSubs

\* An attempt that asked for a timeout still has the notification that ends
\* it, whatever stale notifications of earlier attempts have done.
TimedAttemptHasTimer ==
  status = "Connecting" /\ holder \in Timed => holder \in connTimers

\* No CONNACK is under way once the loop is connected: its arrival would be
\* the unreachable!() of response.rs:42.
ConnAckFindsAttempt ==
  connectsOut = 1 => status \notin {"Connected", "Waiting", "Closing"}

\* Pings are coalesced: at most one PINGREQ is unanswered on the stream, and
\* when its PINGRESP comes somebody is there to be told.
OnePingInFlight ==
  /\ pingsOut <= 1
  /\ pingsOut = 1 => link = "open" /\ connectsOut = 0 /\ pingSubs # {}

\* A keep-alive that runs does not die while the loop is connected: there is
\* always a notification, or an answer to be handled, that goes on with it.
KeepAliveGoesOn ==
  status = "Connected" /\ timer # "None" =>
    timer = "Armed" \/ loose > 0 \/ pingTimers # {} \/ pongs # {}

\* A call loses its answer only to a ping timeout, which forgets the caller
\* the status held (ping.rs:45), or to a panic of the loop.
LostOnlyToTimeout ==
  [][\A c \in Calls : reply[c] # "lost" /\ reply'[c] = "lost" =>
       \/ status' = "Crashed"
       \/ c = holder /\ status' = "PendingError"]_vars

\* The error of a ping timeout reaches a call, unless a notification that
\* outlived its attempt takes it first (connect.rs:92): the call that armed
\* it has its answer already, so nobody is told.
ErrorIsHandedOut ==
  [][status = "PendingError" /\ status' # "PendingError" =>
       \/ \E c \in Calls : reply[c] = "idle" /\ reply'[c] = "pingTimedOut"
       \/ \E c \in connTimers \ connTimers' : reply[c] \in Answers]_vars

\* A disconnect with a timeout is never done (disconnect.rs:72): all that can
\* end the wait is a ping timeout, which drops the sender.
DisconnectIsOnlyLost ==
  [][\A c \in Disconnects \cap Timed :
       reply[c] = "waiting" /\ reply'[c] # "waiting" =>
         reply'[c] = "lost" /\ status' = "PendingError"]_vars

\* Nothing leads out of Disconnected, so a refused CONNECT, or an error that
\* a client request picked up, ends the usable life of the loop.
DisconnectedIsFinal ==
  [][status = "Disconnected" => status' = "Disconnected"]_vars

-----------------------------------------------------------------------------
(* Liveness.                                                               *)

\* A connect call with a timeout gets an answer (client.rs:31), even if the
\* server never sends one.
TimedConnectResolves ==
  \A c \in Connects \cap Timed : reply[c] = "waiting" ~> reply[c] # "waiting"

\* The bounds of the model are reached: every automatic ping is left from an
\* earlier stream, and none has a timeout any more.
PingsAreUsedUp == Pings \subseteq pingSubs \cup pongs /\ pingTimers = {}

\* With the keep-alive running, a broken stream is noticed (client.rs:232).
DeadStreamNoticed ==
  status = "Connected" /\ link = "broken" /\ timer # "None"
    ~> status # "Connected" \/ PingsAreUsedUp

-----------------------------------------------------------------------------
(* What comments and documentation say, and the code does not do.          *)

\* client.rs:32: a connect timeout of 0 means wait indefinitely.
UntimedNeverTimesOut == \A c \in Connects \ Timed : reply[c] # "timedOut"
=============================================================================
