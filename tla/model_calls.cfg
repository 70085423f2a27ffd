SPECIFICATION System
CONSTANTS
  Calls = {router, freshness, summary, startup, r1, r2}
  None = None
  Burst = 1
  Keys = {k1, k2}
  Router = router
  Freshness = freshness
  Summary = summary
  Startup = startup
  Requests = {r1, r2}
  Callers = {router, freshness}
  Window = 1
  MaxSeq = 3
  MaxFaults = 1
  MaxDecisions = 2
INVARIANTS SummaryIsContinuous CoveredOrMarked VerdictIsOfKey
PROPERTIES NoOlderDecision EverybodyAnswered
CHECK_DEADLOCK FALSE
