SPECIFICATION ServicesSpec
CONSTANTS
  n1 = n1
  n2 = n2
  k1 = k1
  k2 = k2
  k3 = k3
  a1 = a1
  a2 = a2
  a3 = a3
  m1 = m1
  x1 = x1
  x2 = x2
  Absent = Absent
  None = None
  Parts = {"bulk", "bulkPair", "migration", "registry", "adapters", "links", "agents", "poller",
           "writer", "capture"}
  Jobs = {j1, j2}
  Databases = {d1}
  Primaries = {n1, n2}
  HomeNode = n1
  Keys = {k1, k2, k3}
  KeyHome <- MCKeyHome
  Limits = {1, 3}
  MaxBulkFaults = 2
  Runs = {r1, r2}
  MaxJobs = 1
  Masters = 2
  MaxMigFaults = 1
  Links = {env, l1}
  EnvDefault = env
  Agents = {g1}
  Sockets = {w1, w2}
  Adapters = {a1, a2, a3}
  Callers = {c1, c2}
  MaxRegistryFaults = 1
  NumWriters = 2
  LineCap = 3
  FlushThreshold = 2
  Namespace = 3
  MaxWriterFaults = 1
  Conns = {m1}
  Sessions = {s1, s2}
  Triggers = {t1}
  Schedules = {x1, x2}
  ScheduleConn <- MCConn
  Firings = {f1}
  SchedulePage = 1
  Clients = {{"users"}, {"triggers"}, {"schedules"}, {"users", "triggers"}, {"users", "schedules"}}
  MaxAnomalies = 1
  MaxClock = 2
  MaxCaptureFaults = 1
INVARIANTS
  BulkLimitKept
  BulkComplete
  BulkCancelPrompt
  MigStoppable
  MigCleanedUp
  OpenIsListed
  DefaultAgrees
  AgentsAgree
  CaptureAccounted
  SessionBookkeeping
  TriggerFiresOnce
PROPERTIES
  BulkAuditSettles
  MigCancelHolds
  MigStoppedProcessEnds
  StateReleased
  CaptureFinalized
  SettledStays
  TriggersSettle
CHECK_DEADLOCK FALSE
