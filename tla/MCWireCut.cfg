\* A clip is cut by whatever else the end that reads it has to do.
CONSTANTS
  a = a
  b = b
  x = x
  y = y
  z = z
  v = v
  w = w
  End = {a, b}
  Clip = {x, y, z, v, w}
  From <- Emitter
  Size <- Lengths
  Skipped = {w}
  Buf = 2
  Env = {}
  MaxPings = 1
SPECIFICATION Spec
CHECK_DEADLOCK FALSE
INVARIANT Unbroken
