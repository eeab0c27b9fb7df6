CONSTANTS
  Streams <- ThreeStreams
  Lengths = {8, 30, 39}
  Unsplit = 2
  Block = 2
  IdRange = 2
  MaxMessages = 3
  MaxParts = 6
SPECIFICATION Spec
INVARIANTS TypeOK WholeMessages NothingIsStranded
PROPERTIES KeepsPromise
CHECK_DEADLOCK FALSE
