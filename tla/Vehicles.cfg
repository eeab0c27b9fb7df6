CONSTANTS
  c1 = c1
  landstal = landstal
  bravura = bravura
  Clients <- OneClient
  Models <- TwoModels
  MAX_VEHICLES = 2
  VehicleNumbers <- IdsAndOneBeyond
  MaxCalls = 3
SPECIFICATION Spec
SYMMETRY Symmetry
INVARIANTS InsidePool CountCovers VehiclesAgree
CHECK_DEADLOCK FALSE
