\* Two daemons that both copy, with restarts, lost connections and failing writes; the
\* system clipboard of one rewrites what it is given.
CONSTANTS
  a = a
  b = b
  c = c
  x = x
  y = y
  z = z
  Node = {a, b}
  Relay = Relay
  Link <- Pair
  Hash = {x, y, z}
  RingMax = 2
  Oversize = {z}
  Shown <- Rewritten
  Empty = Empty
  BroadcastCap = 2
  LeafCap = 2
  Env = {"others", "copy", "push", "restart", "drop", "setfail", "savefail", "peers"}
  Writer = {a, b}
  MaxCopies = 2
  MaxRestarts = 1
SPECIFICATION Spec
CHECK_DEADLOCK FALSE
INVARIANTS TypeOK UniqueSeq RestartIsNotReplay OnlyIssued NoEcho
PROPERTIES NewestWins Implements
