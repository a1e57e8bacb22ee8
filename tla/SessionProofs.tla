--------------------------- MODULE SessionProofs ---------------------------
(***************************************************************************)
(* Proofs about the life cycle of the loop (module Session), for any       *)
(* number of calls, pings and keep-alive notifications.                    *)
(*                                                                         *)
(* The inductive invariant is built in layers: the types; what the status  *)
(* carries together with who waits; then the timers and the stream, which  *)
(* rest on the first two layers.                                           *)
(***************************************************************************)
EXTENDS Session, TLAPS

USE DEF Calls, Statuses, Answers

\* Every value stays in its range.
LEMMA TypeStep == TypeOK /\ Next => TypeOK'
<1> SUFFICES ASSUME TypeOK, Next PROVE TypeOK'
  OBVIOUS
<1> USE SessionAssumption DEF TypeOK, life, pings, keepAlive, stream
<1>1. ASSUME NEW c \in Connects, Connect(c) PROVE TypeOK'
  <2>1. CASE Refuse(c)
    BY <1>1, <2>1 DEF Connect, Attempt, Refuse, TakeError, Answer
  <2>2. CASE TakeError(c, "None")
    BY <1>1, <2>2 DEF Connect, Attempt, Refuse, TakeError, Answer
  <2>3. CASE status = "Connected"
    BY <1>1, <2>3 DEF Connect, Attempt, Refuse, TakeError, Answer
  <2>4. CASE status = "None"
    BY <1>1, <2>4 DEF Connect, Attempt, RequestTimeout, Refuse, TakeError, Answer, CloseStream
  <2> QED
    BY <1>1, <2>1, <2>2, <2>3, <2>4 DEF Connect
<1>2. ASSUME NEW c \in Connects, ConnectTimeout(c) PROVE TypeOK'
  BY <1>2 DEF ConnectTimeout, Answer
<1>3. ASSUME NEW c \in Disconnects, Disconnect(c) PROVE TypeOK'
  BY <1>3 DEF Disconnect, Refuse, TakeError, Panic, Answer, CloseStream
<1>4. ASSUME NEW c \in Disconnects, DisconnectTimeout(c) PROVE TypeOK'
  BY <1>4 DEF DisconnectTimeout
<1>5. ASSUME NEW c \in PingCalls, PingCall(c) PROVE TypeOK'
  BY <1>5 DEF PingCall, ping_req_handler, Rearm, Refuse, TakeError, Panic, Answer, CloseStream
<1>6. ASSUME NEW accepted \in BOOLEAN, NEW sp \in BOOLEAN, ConnAck(accepted, sp)
      PROVE  TypeOK'
  BY <1>6 DEF ConnAck, is_clean, Answer, Rearm
<1>7. CASE PingRequest
  BY <1>7 DEF PingRequest, PingDue, ping_req_handler
<1>8. ASSUME NEW p \in Pings, PingTimeout(p) PROVE TypeOK'
  BY <1>8 DEF PingTimeout, AnswerAll
<1>9. ASSUME NEW p \in Pings, PingResponse(p) PROVE TypeOK'
  BY <1>9 DEF PingResponse
<1>10. CASE PingResp
  BY <1>10 DEF PingResp, AnswerAll, Rearm
<1>11. CASE OtherPacket
  BY <1>11 DEF OtherPacket, Rearm
<1>12. CASE ConnectionLost
  BY <1>12 DEF ConnectionLost, CloseStream
<1> QED
  BY <1>1, <1>2, <1>3, <1>4, <1>5, <1>6, <1>7, <1>8, <1>9, <1>10, <1>11, <1>12 DEF Next

\* The value of every variable stays in its range (the types of the fields
\* of Loop and LoopData, mqtt_loop.rs:53-111).
THEOREM TypeCorrect == Spec => []TypeOK
<1>1. Init => TypeOK
  BY SessionAssumption DEF Init, TypeOK
<1>2. TypeOK /\ [Next]_vars => TypeOK'
  <2>1. TypeOK /\ UNCHANGED vars => TypeOK'
    BY DEF vars, life, pings, keepAlive, stream, TypeOK
  <2> QED
    BY <2>1, TypeStep
<1> QED
  BY <1>1, <1>2, PTL DEF Spec

-----------------------------------------------------------------------------
(* Who waits.  The two facts need each other: a handler that answers the   *)
(* holder answers a call, and one that gives the status a new holder finds *)
(* it without one.                                                         *)

Held == StatusCarriesCall /\ WaitingIsHeld

\* A handler that answers or queues a sender keeps the books.
LEMMA HeldStep == TypeOK /\ Held /\ Next => Held'
<1> SUFFICES ASSUME TypeOK, Held, Next PROVE Held'
  OBVIOUS
<1> USE SessionAssumption DEF Held, TypeOK, StatusCarriesCall, WaitingIsHeld, life, pings
<1>1. ASSUME NEW c \in Connects, Connect(c) PROVE Held'
  <2>1. CASE Refuse(c)
    BY <1>1, <2>1 DEF Connect, Attempt, Refuse, TakeError, Answer
  <2>2. CASE TakeError(c, "None")
    BY <1>1, <2>2 DEF Connect, Attempt, Refuse, TakeError, Answer
  <2>3. CASE status = "Connected"
    BY <1>1, <2>3 DEF Connect, Attempt, Refuse, TakeError, Answer
  <2>4. CASE status = "None"
    BY <1>1, <2>4 DEF Connect, Attempt, Refuse, TakeError, Answer
  <2> QED
    BY <1>1, <2>1, <2>2, <2>3, <2>4 DEF Connect
<1>2. ASSUME NEW c \in Connects, ConnectTimeout(c) PROVE Held'
  BY <1>2 DEF ConnectTimeout, Answer
<1>3. ASSUME NEW c \in Disconnects, Disconnect(c) PROVE Held'
  <2>1. CASE Refuse(c) \/ TakeError(c, "None")
    BY <1>3, <2>1 DEF Disconnect, Refuse, TakeError, Panic, Answer
  <2>2. CASE status = "Connected"
    BY <1>3, <2>2 DEF Disconnect, Refuse, TakeError, Panic, Answer
  <2>3. CASE Panic(c)
    BY <1>3, <2>3 DEF Panic
  <2> QED
    BY <1>3, <2>1, <2>2, <2>3 DEF Disconnect
<1>4. ASSUME NEW c \in Disconnects, DisconnectTimeout(c) PROVE Held'
  BY <1>4 DEF DisconnectTimeout
<1>5. ASSUME NEW c \in PingCalls, PingCall(c) PROVE Held'
  <2>1. CASE Refuse(c) \/ TakeError(c, "Disconnected")
    BY <1>5, <2>1 DEF PingCall, Refuse, TakeError, Panic, Answer
  <2>2. CASE status = "Connected"
    BY <1>5, <2>2 DEF PingCall, ping_req_handler, Refuse, TakeError, Panic, Answer
  <2>3. CASE Panic(c)
    BY <1>5, <2>3 DEF Panic
  <2> QED
    BY <1>5, <2>1, <2>2, <2>3 DEF PingCall
<1>6. ASSUME NEW accepted \in BOOLEAN, NEW sp \in BOOLEAN, ConnAck(accepted, sp)
      PROVE  Held'
  BY <1>6 DEF ConnAck, is_clean, Answer
<1>7. CASE PingRequest
  BY <1>7 DEF PingRequest, ping_req_handler
<1>8. ASSUME NEW p \in Pings, PingTimeout(p) PROVE Held'
  BY <1>8 DEF PingTimeout, AnswerAll
<1>9. ASSUME NEW p \in Pings, PingResponse(p) PROVE Held'
  BY <1>9 DEF PingResponse
<1>10. CASE PingResp
  BY <1>10 DEF PingResp, AnswerAll
<1>11. CASE OtherPacket
  BY <1>11 DEF OtherPacket
<1>12. CASE ConnectionLost
  BY <1>12 DEF ConnectionLost
<1> QED
  BY <1>1, <1>2, <1>3, <1>4, <1>5, <1>6, <1>7, <1>8, <1>9, <1>10, <1>11, <1>12 DEF Next

-----------------------------------------------------------------------------
(* The timers and the stream.                                              *)

Timing == TimedAttemptHasTimer /\ ConnAckFindsAttempt /\ OnePingInFlight /\ KeepAliveGoesOn

\* No handler loses the notification or the answer that the next step needs.
LEMMA TimingStep == TypeOK /\ Held /\ Timing /\ Next => Timing'
<1> SUFFICES ASSUME TypeOK, Held, Timing, Next PROVE Timing'
  OBVIOUS
<1> USE SessionAssumption DEF Held, StatusCarriesCall, TypeOK, Timing,
        TimedAttemptHasTimer, ConnAckFindsAttempt, OnePingInFlight, KeepAliveGoesOn,
        life, pings, keepAlive, stream
<1>1. ASSUME NEW c \in Connects, Connect(c) PROVE Timing'
  <2>1. CASE Refuse(c)
    BY <1>1, <2>1 DEF Connect, Attempt, Refuse, TakeError
  <2>2. CASE TakeError(c, "None")
    BY <1>1, <2>2 DEF Connect, Attempt, Refuse, TakeError
  <2>3. CASE status = "Connected"
    BY <1>1, <2>3 DEF Connect, Attempt, Refuse, TakeError
  <2>4. CASE status = "None"
    BY <1>1, <2>4 DEF Connect, Attempt, RequestTimeout, Refuse, TakeError, CloseStream
  <2> QED
    BY <1>1, <2>1, <2>2, <2>3, <2>4 DEF Connect
<1>2. ASSUME NEW c \in Connects, ConnectTimeout(c) PROVE Timing'
  BY <1>2 DEF ConnectTimeout
<1>3. ASSUME NEW c \in Disconnects, Disconnect(c) PROVE Timing'
  <2>1. CASE Refuse(c) \/ TakeError(c, "None")
    BY <1>3, <2>1 DEF Disconnect, Refuse, TakeError, Panic
  <2>2. CASE status = "Connected"
    BY <1>3, <2>2 DEF Disconnect, Refuse, TakeError, Panic, CloseStream
  <2>3. CASE Panic(c)
    BY <1>3, <2>3 DEF Panic, CloseStream
  <2> QED
    BY <1>3, <2>1, <2>2, <2>3 DEF Disconnect
<1>4. ASSUME NEW c \in Disconnects, DisconnectTimeout(c) PROVE Timing'
  BY <1>4 DEF DisconnectTimeout
<1>5. ASSUME NEW c \in PingCalls, PingCall(c) PROVE Timing'
  <2>1. CASE Refuse(c) \/ TakeError(c, "Disconnected")
    BY <1>5, <2>1 DEF PingCall, Refuse, TakeError, Panic
  <2>2. CASE status = "Connected"
    BY <1>5, <2>2 DEF PingCall, ping_req_handler, Rearm, Refuse, TakeError, Panic
  <2>3. CASE Panic(c)
    BY <1>5, <2>3 DEF Panic, CloseStream
  <2> QED
    BY <1>5, <2>1, <2>2, <2>3 DEF PingCall
<1>6. ASSUME NEW accepted \in BOOLEAN, NEW sp \in BOOLEAN, ConnAck(accepted, sp)
      PROVE  Timing'
  BY <1>6 DEF ConnAck, Rearm
<1>7. CASE PingRequest
  BY <1>7 DEF PingRequest, PingDue, ping_req_handler
<1>8. ASSUME NEW p \in Pings, PingTimeout(p) PROVE Timing'
  BY <1>8 DEF PingTimeout
<1>9. ASSUME NEW p \in Pings, PingResponse(p) PROVE Timing'
  BY <1>9 DEF PingResponse
<1>10. CASE PingResp
  BY <1>10 DEF PingResp, Rearm
<1>11. CASE OtherPacket
  BY <1>11 DEF OtherPacket, Rearm
<1>12. CASE ConnectionLost
  BY <1>12 DEF ConnectionLost, CloseStream
<1> QED
  BY <1>1, <1>2, <1>3, <1>4, <1>5, <1>6, <1>7, <1>8, <1>9, <1>10, <1>11, <1>12 DEF Next

-----------------------------------------------------------------------------
(* The invariant and what follows from it.                                 *)

IInv == TypeOK /\ Held /\ Timing

\* The layers together are inductive.
LEMMA Inductive == Spec => []IInv
<1>1. Init => IInv
  BY SessionAssumption DEF Init, IInv, TypeOK, Held, StatusCarriesCall, WaitingIsHeld,
     Timing, TimedAttemptHasTimer, ConnAckFindsAttempt, OnePingInFlight, KeepAliveGoesOn
<1>2. IInv /\ [Next]_vars => IInv'
  <2>1. IInv /\ UNCHANGED vars => IInv'
    BY DEF vars, life, pings, keepAlive, stream, IInv, TypeOK, Held, StatusCarriesCall,
       WaitingIsHeld, Timing, TimedAttemptHasTimer, ConnAckFindsAttempt,
       OnePingInFlight, KeepAliveGoesOn
  <2> QED
    BY <2>1, TypeStep, HeldStep, TimingStep DEF IInv
<1> QED
  BY <1>1, <1>2, PTL DEF Spec

\* No caller is forgotten by the loop while it waits, and no sender is kept
\* for a call that has its answer (the `ret` of LoopStatus and ping_subs).
THEOREM CallersAreHeld == Spec => [](StatusCarriesCall /\ WaitingIsHeld)
<1>1. IInv => StatusCarriesCall /\ WaitingIsHeld
  BY DEF IInv, Held
<1> QED
  BY <1>1, Inductive, PTL

\* Stale notifications of earlier attempts never take the timeout away from
\* the attempt in progress (connect.rs:53, response.rs:53).
THEOREM TimeoutIsArmed == Spec => []TimedAttemptHasTimer
<1>1. IInv => TimedAttemptHasTimer
  BY DEF IInv, Timing
<1> QED
  BY <1>1, Inductive, PTL

\* The unreachable!() that a CONNACK would meet in a connected loop
\* (response.rs:42) is unreachable.
THEOREM ConnAckIsExpected == Spec => []ConnAckFindsAttempt
<1>1. IInv => ConnAckFindsAttempt
  BY DEF IInv, Timing
<1> QED
  BY <1>1, Inductive, PTL

\* However many calls and automatic pings there are, one PINGREQ at most is
\* unanswered (outbound_handlers.rs:56), and its PINGRESP finds a sender.
THEOREM PingsAreCoalesced == Spec => []OnePingInFlight
<1>1. IInv => OnePingInFlight
  BY DEF IInv, Timing
<1> QED
  BY <1>1, Inductive, PTL

\* Once it runs, the keep-alive of a connected loop always has a next step
\* (ping.rs:58, response.rs:102).
THEOREM KeepAliveIsKept == Spec => []KeepAliveGoesOn
<1>1. IInv => KeepAliveGoesOn
  BY DEF IInv, Timing
<1> QED
  BY <1>1, Inductive, PTL

-----------------------------------------------------------------------------
(* What a step may never do.                                               *)

\* The actions that answer nobody.
LEMMA SilentSteps ==
  ASSUME \/ \E c \in Disconnects : DisconnectTimeout(c)
         \/ PingRequest
         \/ \E p \in Pings : PingResponse(p)
         \/ OtherPacket
         \/ ConnectionLost
         \/ UNCHANGED vars
  PROVE  UNCHANGED <<status, reply>>
BY DEF DisconnectTimeout, PingRequest, PingResponse, OtherPacket, ConnectionLost, vars, life

\* The loop drops a sender unanswered only when a ping times out over the
\* call the status holds (ping.rs:45), or when it panics.
THEOREM LossIsExplained == Spec => LostOnlyToTimeout
<1> DEFINE Explained ==
      \A c \in Calls : reply[c] # "lost" /\ reply'[c] = "lost" =>
        \/ status' = "Crashed"
        \/ c = holder /\ status' = "PendingError"
<1>1. ASSUME IInv, [Next]_vars PROVE Explained
  <2> USE <1>1, SessionAssumption DEF IInv, TypeOK, life
  <2>1. ASSUME NEW c \in Connects, Connect(c) PROVE Explained
    BY <2>1 DEF Connect, Attempt, Refuse, TakeError, Answer
  <2>2. ASSUME NEW c \in Connects, ConnectTimeout(c) PROVE Explained
    BY <2>2 DEF ConnectTimeout, Answer
  <2>3. ASSUME NEW c \in Disconnects, Disconnect(c) PROVE Explained
    BY <2>3 DEF Disconnect, Refuse, TakeError, Panic, Answer
  <2>4. ASSUME NEW c \in PingCalls, PingCall(c) PROVE Explained
    BY <2>4 DEF PingCall, Refuse, TakeError, Panic, Answer
  <2>5. ASSUME NEW accepted \in BOOLEAN, NEW sp \in BOOLEAN, ConnAck(accepted, sp)
        PROVE  Explained
    BY <2>5 DEF ConnAck, is_clean, Answer
  <2>6. ASSUME NEW p \in Pings, PingTimeout(p) PROVE Explained
    BY <2>6 DEF PingTimeout, AnswerAll
  <2>7. CASE PingResp
    BY <2>7 DEF PingResp, AnswerAll
  <2> QED
    BY <2>1, <2>2, <2>3, <2>4, <2>5, <2>6, <2>7, SilentSteps DEF Next
<1> QED
  BY <1>1, Inductive, PTL DEF Spec, LostOnlyToTimeout

\* No handler leaves Disconnected (connect.rs:34, ping.rs:42), so a loop
\* that was refused once stays refused.
THEOREM NoWayBack == Spec => DisconnectedIsFinal
<1> DEFINE Stays == status = "Disconnected" => status' = "Disconnected"
<1>1. [Next]_vars => Stays
  BY SilentSteps DEF Next, Connect, Attempt, ConnectTimeout, Disconnect, PingCall, Refuse,
     TakeError, Panic, ConnAck, PingTimeout, PingResp, life
<1> QED
  BY <1>1, PTL DEF Spec, DisconnectedIsFinal

\* A pending ConnectTimeout was armed by a call that has been made.
ArmedByCall == \A c \in connTimers : reply[c] # "idle"

\* Nothing forgets that a call was made.
LEMMA TimersAreCalled == Spec => [](IInv /\ ArmedByCall)
<1>1. Init => ArmedByCall
  BY DEF Init, ArmedByCall
<1>2. ASSUME IInv, ArmedByCall, [Next]_vars PROVE ArmedByCall'
  <2> USE <1>2, SessionAssumption DEF IInv, TypeOK, life, ArmedByCall
  <2>1. ASSUME NEW c \in Connects, Connect(c) PROVE ArmedByCall'
    BY <2>1 DEF Connect, Attempt, RequestTimeout, Refuse, TakeError, Answer
  <2>2. ASSUME NEW c \in Connects, ConnectTimeout(c) PROVE ArmedByCall'
    BY <2>2 DEF ConnectTimeout, Answer
  <2>3. ASSUME NEW c \in Disconnects, Disconnect(c) PROVE ArmedByCall'
    BY <2>3 DEF Disconnect, Refuse, TakeError, Panic, Answer
  <2>4. ASSUME NEW c \in PingCalls, PingCall(c) PROVE ArmedByCall'
    BY <2>4 DEF PingCall, Refuse, TakeError, Panic, Answer
  <2>5. ASSUME NEW accepted \in BOOLEAN, NEW sp \in BOOLEAN, ConnAck(accepted, sp)
        PROVE  ArmedByCall'
    BY <2>5 DEF ConnAck, is_clean, Answer
  <2>6. ASSUME NEW p \in Pings, PingTimeout(p) PROVE ArmedByCall'
    BY <2>6 DEF PingTimeout, AnswerAll
  <2>7. CASE PingResp
    BY <2>7 DEF PingResp, AnswerAll
  <2>8. CASE UNCHANGED <<connTimers, reply>>
    BY <2>8
  <2> QED
    BY <2>1, <2>2, <2>3, <2>4, <2>5, <2>6, <2>7, <2>8 DEF Next, DisconnectTimeout,
       PingRequest, PingResponse, OtherPacket, ConnectionLost, vars
<1> QED
  BY <1>1, <1>2, Inductive, PTL DEF Spec

\* The error a ping timeout left is handed to a call, or taken by the stale
\* notification of a call that has its answer (connect.rs:92).
THEOREM ErrorsAreHandedOut == Spec => ErrorIsHandedOut
<1> DEFINE Told == \/ \E c \in Calls : reply[c] = "idle" /\ reply'[c] = "pingTimedOut"
                   \/ \E c \in connTimers \ connTimers' : reply[c] \in Answers
<1>1. ASSUME IInv, ArmedByCall, [Next]_vars,
             status = "PendingError", status' # "PendingError"
      PROVE  Told
  <2> USE <1>1, SessionAssumption DEF IInv, TypeOK, life
  <2>1. ASSUME NEW c \in Connects, Connect(c) PROVE Told
    BY <2>1 DEF Connect, Attempt, Refuse, TakeError, Answer
  <2>2. ASSUME NEW c \in Connects, ConnectTimeout(c) PROVE Told
    <3>1. c \in connTimers \ connTimers'
      BY <2>2 DEF ConnectTimeout
    <3>2. PingCalls \cap Connects = {} /\ Pings \cap Connects = {} /\ Dead \notin Connects
      OBVIOUS
    <3>3. c # holder /\ c \notin pingSubs
      BY <3>2 DEF Held, StatusCarriesCall
    <3>4. reply[c] # "waiting"
      BY <3>3 DEF Held, WaitingIsHeld
    <3>5. reply[c] # "idle"
      BY <2>2 DEF ConnectTimeout, ArmedByCall
    <3> QED
      BY <3>1, <3>4, <3>5
  <2>3. ASSUME NEW c \in Disconnects, Disconnect(c) PROVE Told
    BY <2>3 DEF Disconnect, Refuse, TakeError, Panic, Answer
  <2>4. ASSUME NEW c \in PingCalls, PingCall(c) PROVE Told
    BY <2>4 DEF PingCall, Refuse, TakeError, Panic, Answer
  <2>5. ASSUME NEW accepted \in BOOLEAN, NEW sp \in BOOLEAN, ConnAck(accepted, sp)
        PROVE  Told
    BY <2>5 DEF ConnAck
  <2>6. ASSUME NEW p \in Pings, PingTimeout(p) PROVE Told
    BY <2>6 DEF PingTimeout
  <2>7. CASE PingResp
    BY <2>7 DEF PingResp
  <2> QED
    BY <2>1, <2>2, <2>3, <2>4, <2>5, <2>6, <2>7, SilentSteps DEF Next
<1> QED
  BY <1>1, TimersAreCalled, PTL DEF Spec, ErrorIsHandedOut

\* A disconnect that waits for its timeout ends only when a ping times out
\* (disconnect.rs:72, ping.rs:45).
THEOREM DisconnectsAreOnlyLost == Spec => DisconnectIsOnlyLost
<1> DEFINE Lost == \A c \in Disconnects \cap Timed :
                     reply[c] = "waiting" /\ reply'[c] # "waiting" =>
                       reply'[c] = "lost" /\ status' = "PendingError"
<1>1. ASSUME IInv, [Next]_vars PROVE Lost
  <2> USE <1>1, SessionAssumption
      DEF IInv, TypeOK, Held, StatusCarriesCall, WaitingIsHeld, life
  <2>1. ASSUME NEW c \in Connects, Connect(c) PROVE Lost
    BY <2>1 DEF Connect, Attempt, Refuse, TakeError, Answer
  <2>2. ASSUME NEW c \in Connects, ConnectTimeout(c) PROVE Lost
    BY <2>2 DEF ConnectTimeout, Answer
  <2>3. ASSUME NEW c \in Disconnects, Disconnect(c) PROVE Lost
    BY <2>3 DEF Disconnect, Refuse, TakeError, Panic, Answer
  <2>4. ASSUME NEW c \in PingCalls, PingCall(c) PROVE Lost
    BY <2>4 DEF PingCall, Refuse, TakeError, Panic, Answer
  <2>5. ASSUME NEW accepted \in BOOLEAN, NEW sp \in BOOLEAN, ConnAck(accepted, sp)
        PROVE  Lost
    BY <2>5 DEF ConnAck, is_clean, Answer
  <2>6. ASSUME NEW p \in Pings, PingTimeout(p) PROVE Lost
    BY <2>6 DEF PingTimeout, AnswerAll
  <2>7. CASE PingResp
    BY <2>7 DEF PingResp, AnswerAll
  <2> QED
    BY <2>1, <2>2, <2>3, <2>4, <2>5, <2>6, <2>7, SilentSteps DEF Next
<1> QED
  BY <1>1, Inductive, PTL DEF Spec, DisconnectIsOnlyLost
=============================================================================
