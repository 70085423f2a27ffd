SPECIFICATION Spec
CONSTANTS
  Agents = {a1, a2}
  Initiator = a1
  RoundLimit = 2
  MaxRequests = 4
  Depth = 3
  MaxContinues = 1
  MaxFlight = 2
  MaxFaults = 1
INVARIANTS WithinGrant RouteSettles NothingBehindPause PanelShowsPause TargetsAreJudged
CHECK_DEADLOCK FALSE
