CONSTANTS
  Streams <- OrderedStream
  NumberRange = 6
  Timeout = 1
  MaxMessages = 7
  MaxTime = 1
  MaxAge = 2
SPECIFICATION Spec
INVARIANTS InStep OrderedDelivery
CHECK_DEADLOCK FALSE
