CONSTANTS
  c1 = c1
  c2 = c2
  c3 = c3
  Clients <- ThreeClients
  MayLeave <- ThreeClients
  NumSlots = 2
  MAX_PLAYERS = 3
  InOrder = TRUE
SPECIFICATION FairSpec
INVARIANTS TypeOK CountCovers MyIndexIsMine OwnEntryIntact FirstKnowsSecond
PROPERTIES EntersGame
CHECK_DEADLOCK FALSE
