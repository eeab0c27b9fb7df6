CONSTANTS
  Streams <- ReliableStreams
  NumberRange = 16
  Timeout = 1
  MaxMessages = 2
  MaxTime = 2
  MaxAge = 8
SPECIFICATION FairSpec
INVARIANTS AckedMeansDelivered NoDuplicateDelivery OlderIsExact HoleCountIsExact
PROPERTIES EventuallyDelivered EventuallyAcked
CHECK_DEADLOCK FALSE
