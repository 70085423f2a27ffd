SPECIFICATION Spec
CONSTANTS
  Agents = {a1, a2}
  Initiator = a1
  RoundLimit = 1
  MaxRequests = 4
  Depth = 2
  MaxContinues = 0
  MaxFlight = 1
  MaxFaults = 0
INVARIANTS OpenIsHeld
CHECK_DEADLOCK FALSE
