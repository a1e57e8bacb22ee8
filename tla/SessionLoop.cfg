CONSTANTS
  Connects = {c1, c2}
  Disconnects = {d1, d2}
  PingCalls = {q1}
  Timed = {c1, c2, d1}
  Pings = {p1, p2}
  MaxLoose = 1
  NoCall = NoCall
  Dead = Dead
  InitStatus = "None"
  InitTimer = "Armed"
SPECIFICATION FairSpec
INVARIANT TypeOK
INVARIANT WaitingIsHeld
INVARIANT TimedAttemptHasTimer
INVARIANT ConnAckFindsAttempt
INVARIANT OnePingInFlight
INVARIANT KeepAliveGoesOn
PROPERTY LostOnlyToTimeout
PROPERTY ErrorIsHandedOut
PROPERTY TimedConnectResolves
PROPERTY DeadStreamNoticed
CHECK_DEADLOCK FALSE
