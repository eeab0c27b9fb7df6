CONSTANTS
  p1 = p1
  p2 = p2
  Peers <- BothPeers
  Invited <- BothPeers
  NumSlots = 2
  MaxRequests = 1
SPECIFICATION Spec
INVARIANTS TypeOK OneSlotPerPeer
PROPERTIES ImplementsLifecycle
CHECK_DEADLOCK FALSE
