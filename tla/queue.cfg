SPECIFICATION FairSpec
CONSTANTS
  Procs = {"daemon", "foreground"}
  Daemon = "daemon"
  Tasks = {1, 2}
  Deps <- Chain
  Clash <- OneClash
  Variants = 1
  MaxParallel = 1
  Stacked = FALSE
  Room = 2
  Worlds <- Worlds2
INVARIANTS
  ClaimedOnce
  DriverOwnsDocument
  StatusDerived
  DependenciesFirst
  ClashingApart
PROPERTIES
  FollowsOutline
  QueueDrains
\* A queue that is worked off waits for humans, who need not come.
CHECK_DEADLOCK FALSE
