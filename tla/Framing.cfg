CONSTANTS
  Lengths <- MCLengths
  Scripts <- MCScripts
  Requests <- MCRequests
  Capacity = 54
  PacketRoom = 19
  PayloadRoom = 14
SPECIFICATION Spec
INVARIANT TypeOK
INVARIANT InStep
INVARIANT ErrorsAreForeign
INVARIANT CrashNeedsMany
INVARIANT LengthReadsBack
INVARIANT EncodesAsMqtt
PROPERTY AllIsDecoded
CHECK_DEADLOCK FALSE
