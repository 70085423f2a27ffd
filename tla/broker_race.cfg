SPECIFICATION Spec
CONSTANTS
  p1 = p1
  p2 = p2
  Pis <- MCPis
  Teams <- MCTeams
  MaxBrokers = 2
  MaxFaults = 1
INVARIANT OneBroker
