CONSTANTS
  Lengths = {}
  Scripts <- Greetings
  Requests = {}
  Capacity = 54
  PacketRoom = 19
  PayloadRoom = 14
SPECIFICATION Spec
INVARIANT WholePacketIsReturned
CHECK_DEADLOCK FALSE
