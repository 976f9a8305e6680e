\* Two daemons that may dial each other, one with a relay saved; one failure and two calls.
CONSTANTS
  a = a
  b = b
  ua = ua
  ub = ub
  r = r
  Node = {a, b}
  Addr = {ua, ub, r}
  Host <- Hosts
  Relay = Relay
  Book <- Dialled
  First <- AtFirst
  Slot = {1, 2}
  Conn = {k1, k2}
  Cli = {i1}
  None = None
  Env = {"ackfail", "sweep", "savefail", "hang"}
  MaxCalls = 2
  MaxFaults = 1
SPECIFICATION FairSpec
CHECK_DEADLOCK FALSE
INVARIANTS TypeOK LoopsAreListed ClaimsAreExclusive ClaimsAreHeld
PROPERTY Reconnects
