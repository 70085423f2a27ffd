SPECIFICATION FairSpec
CONSTANTS
  Agents = {a1}
  Messages = {m1, m2}
  NoRequest = NoRequest
  Faults = {"break", "crash", "quit", "restart"}
  MaxFaults = 2
  MaxFlight = 2
INVARIANTS RunsOnce AcknowledgedIsHeld MessageSettles 
CHECK_DEADLOCK FALSE
PROPERTIES OpenRequestsEnd
