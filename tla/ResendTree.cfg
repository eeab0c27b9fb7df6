CONSTANTS
  Order = 4
  NumberRange = 27
  MaxBits = 49
  Burst = 3
  MaxMessages = 30
  Window = 21
  Reordering = 3
SPECIFICATION Spec
INVARIANTS ResendListIsValid SearchFindsAll NothingIsForgotten
PROPERTIES ImplementsSets
CHECK_DEADLOCK FALSE
