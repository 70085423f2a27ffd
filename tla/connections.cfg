SPECIFICATION Spec
CONSTANTS
  Brokers = {b1, b2}
  Home = b1
  Pi = pi
  Tabs = {t1, t2}
  Conns = {s1, s2}
  None = None
  MaxIds = 8
  MaxFaults = 2
  MaxUser = 1
INVARIANTS SessionHeld CredentialsGoHome OneConnection
PROPERTIES Reconnects SessionSpec
CHECK_DEADLOCK FALSE
