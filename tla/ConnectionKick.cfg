CONSTANTS
  p1 = p1
  p2 = p2
  Peers <- BothPeers
  Invited <- OnePeer
  NumSlots = 1
  MaxRequests = 1
SPECIFICATION FairSpec
PROPERTIES KickEnds
CHECK_DEADLOCK FALSE
