\* Clips of up to three pieces through buffers of two; pings, a stop, a failing set.
CONSTANTS
  a = a
  b = b
  x = x
  y = y
  z = z
  v = v
  w = w
  End = {a, b}
  Clip = {x, y, z, v, w}
  From <- Emitter
  Size <- Lengths
  Skipped = {w}
  Buf = 2
  Env = {"stop", "setfail"}
  MaxPings = 1
SPECIFICATION FairSpec
CHECK_DEADLOCK FALSE
INVARIANT TypeOK
PROPERTIES Implements OnlyWedgesStall
