CONSTANTS
  Pid = {1, 2, 3}
  Cmd = {c1, c2}
  Kinds = {"zsync", "zsyncd"}
  v1 = v1
  v2 = v2
  Port = {v1, v2}
  Named <- PortsNamed
  None = None
  Blank = Blank
  MaxCmds = 3
  MaxFaults = 1
SPECIFICATION FairSpec
CHECK_DEADLOCK FALSE
INVARIANTS TypeOK UpIsReachable GuardsOwnFiles
PROPERTIES LoneStartComesUp LoneStopEndsIt
