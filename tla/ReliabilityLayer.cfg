CONSTANTS
  Streams <- MixedStreams
  NumberRange = 16
  Timeout = 0
  MaxMessages = 3
  MaxTime = 2
  MaxAge = 8
SPECIFICATION Spec
INVARIANTS SequencedDelivery NoneLeftWaiting AckTimerRuns DeliveryInv
PROPERTIES ImplementsPromise
CHECK_DEADLOCK FALSE
