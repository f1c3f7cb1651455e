SPECIFICATION MCSpec
CONSTANTS
  m1 = m1
  x1 = x1
  x2 = x2
  None = None
  Conns = {m1}
  Sessions = {s1, s2}
  Triggers = {t1}
  Schedules = {x1, x2}
  ScheduleConn <- MCConn
  Firings = {f1}
  SchedulePage = 1
  Clients = {{"schedules"}}
  MaxAnomalies = 1
  MaxClock = 2
  MaxCaptureFaults = 0
INVARIANT TimersInSync
CHECK_DEADLOCK FALSE
