CONSTANTS
  Paths <- MCPaths
  Versions <- MCVersions
  Events <- MCEvents
  Bounds <- MCBounds
  Minutes <- MCMinutes
  Handlers = {h1, h2}
  MaxPushes = 2
  MaxRuns = 2
  MaxRequests = 2
  MaxTicks = 2
SPECIFICATION MCSpec
INVARIANTS
  RunsAreRunnable
  DueWorkflowsStartOnce
PROPERTY
  TableFollowsSyncs
CHECK_DEADLOCK FALSE
