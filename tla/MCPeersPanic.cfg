\* A disconnect of everything while a connection comes in.
CONSTANTS
  a = a
  b = b
  ua = ua
  ub = ub
  r = r
  Node = {a, b}
  Addr = {ub, r}
  Host <- Hosts
  Relay = Relay
  Book <- Dialled
  First <- AtFirst
  Slot = {1, 2}
  Conn = {k1, k2}
  Cli = {i1}
  None = None
  Env = {"sweep"}
  MaxCalls = 2
  MaxFaults = 0
SPECIFICATION Spec
CHECK_DEADLOCK FALSE
INVARIANT JustInserted
