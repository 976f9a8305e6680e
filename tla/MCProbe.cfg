\* One address that fails, succeeds and reconnects.
CONSTANTS
  Ip = {p}
  Window = 2
  MaxFails = 3
  Ban = 4
  MaxOpen = 3
  MaxTime = 12
SPECIFICATION Spec
CHECK_DEADLOCK FALSE
INVARIANTS TypeOK ScansAreLimited BanFollowsFailure
PROPERTY NoUnjustBan
