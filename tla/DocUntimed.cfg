CONSTANTS
  Connects = {c1, c2}
  Disconnects = {}
  PingCalls = {q1}
  Timed = {c1}
  Pings = {p1}
  MaxLoose = 1
  NoCall = NoCall
  Dead = Dead
  InitStatus = "None"
  InitTimer = "Armed"
SPECIFICATION Spec
INVARIANT UntimedNeverTimesOut
CHECK_DEADLOCK FALSE
