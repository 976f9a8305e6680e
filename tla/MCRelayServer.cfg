\* Two sessions of one device and one of another, in the same group or in another; one
\* administrator.  A device may be gone before its JoinAck is written, or stop reading.
CONSTANTS
  c1 = c1
  c2 = c2
  c3 = c3
  dev1 = dev1
  dev2 = dev2
  g1 = g1
  g2 = g2
  Conn = {c1, c2, c3}
  Group = {g1, g2}
  Cli = {admin}
  First = {g1, g2}
  DeviceOf <- Devices
  Asks <- Joins
  QueueCap = 1
  Env = {"ackfail", "stall"}
  Commands = {"enable", "disable", "deny"}
  MaxFrames = 2
  MaxEdits = 1
SPECIFICATION FairSpec
CHECK_DEADLOCK FALSE
INVARIANTS TypeOK OneSessionPerDevice OnlyFromOthers CacheIsCurrent
PROPERTIES NoOrphans DeniedDrains
