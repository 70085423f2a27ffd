SPECIFICATION Spec
CONSTANTS
  Groups = {g1, g2}
  NoGroup = NoGroup
  Debounce = 1
  MaxWait = 2
  Interval = 3
  Tries = 2
  MaxSaid = 4
  MaxFaults = 2
INVARIANTS DueInTime RoundRobin
PROPERTIES CallCoversOwed  TriggersEnd
CHECK_DEADLOCK FALSE
