SPECIFICATION Spec
CONSTANTS
  l1 = l1
  l2 = l2
  r1 = r1
  n1 = n1
  n2 = n2
  Sessions = {l1, l2, r1}
  Local = {l1, l2}
  Founders = {l1}
  Names = {n1, n2}
  NameOf <- MCNameOf
  Nobody = Nobody
  NoName = NoName
  MaxIssued = 4
  MaxOnWay = 2
  MaxCommands = 2
  MaxFaults = 1
INVARIANTS SeatsAgree OwnerKeepsSeat SavedOpens
PROPERTIES BlocksHold
CHECK_DEADLOCK FALSE
