\* Two daemons in a direct session, one of them in a relay group with a third; the
\* two at the ends copy, no failures.
CONSTANTS
  a = a
  b = b
  c = c
  x = x
  y = y
  z = z
  Node = {a, b, c}
  Relay = Relay
  Link <- Mixed
  Hash = {x, y}
  RingMax = 2
  Oversize = {}
  Shown <- Verbatim
  Empty = Empty
  BroadcastCap = 2
  LeafCap = 2
  Env = {"copy", "expire"}
  Writer = {a, c}
  MaxCopies = 2
  MaxRestarts = 0
SPECIFICATION FairSpec
CHECK_DEADLOCK FALSE
INVARIANTS Agreement NoReturn
PROPERTY Settles
