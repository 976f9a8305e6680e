\* Three daemons all connected to each other, one copy.
CONSTANTS
  a = a
  b = b
  c = c
  x = x
  y = y
  z = z
  Node = {a, b, c}
  Relay = Relay
  Link <- Triangle
  Hash = {x}
  RingMax = 2
  Oversize = {}
  Shown <- Verbatim
  Empty = Empty
  BroadcastCap = 2
  LeafCap = 2
  Env = {"copy"}
  Writer = {a}
  MaxCopies = 1
  MaxRestarts = 0
SPECIFICATION FairSpec
CHECK_DEADLOCK FALSE
PROPERTY Settles
