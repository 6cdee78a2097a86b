SPECIFICATION Spec
CONSTANTS
  a1 = a1
  a2 = a2
  c1 = c1
  c2 = c2
  c3 = c3
  Clients = {c1, c2, c3}
  ClientAddrs = {a1, a2}
  AddrOf <- MCAddrOf
  Threads = {g1, g2}
  Entries = {e1, e2, e3}
  MaxName = 3
  Chosen <- MCChosen
  MaxCalls = 3
  Nobody = Nobody
  SessionAddrs = {a1, a2}
  MaxSessions = 4
  MaxConns = 2
  Wrap = 16
CHECK_DEADLOCK FALSE
INVARIANTS
  WrapConsistent
  OwnObserver
  CountsAddUp
PROPERTIES
  DefaultNameFresh
  CallsReturn
