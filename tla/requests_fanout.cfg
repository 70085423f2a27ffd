SPECIFICATION Spec
CONSTANTS
  Agents = {a1, a2}
  Messages = {m1}
  NoRequest = NoRequest
  Faults = {"break", "crash", "quit", "restart", "leave", "remove"}
  MaxFaults = 2
  MaxFlight = 2
SYMMETRY Symmetry
INVARIANTS PendingMatchesRows AnsweredOnce WorkIsAuthorised
PROPERTIES PromiseSpec
CHECK_DEADLOCK FALSE
