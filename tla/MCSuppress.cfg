\* Three contents, a ring of two, a TTL of two ticks.
CONSTANTS
  Hash = {x, y, z}
  RingMax = 2
  Ttl = 2
  MaxTime = 7
SPECIFICATION Spec
CHECK_DEADLOCK FALSE
INVARIANT TypeOK
PROPERTIES Implements NoLeak
