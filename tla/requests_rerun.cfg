SPECIFICATION Spec
CONSTANTS
  Agents = {a1}
  Messages = {m1}
  NoRequest = NoRequest
  Faults = {"break", "remove"}
  MaxFaults = 2
  MaxFlight = 2
INVARIANTS RunsOnce
CHECK_DEADLOCK FALSE
