SPECIFICATION FairSpec
CONSTANTS
  Steps <- GuardedAgentAndCheck
  MaxRetries = 1
  FollowUp = FALSE
  Faults = {"exit", "skill", "runner", "stall", "block", "deadline", "context", "prepare", "worktree",
            "unreachable", "death", "expire", "nocheck", "nocontract"}
  Budget <- Crash1Cancel1Pause1
INVARIANTS
  DriverKnowsItsPlace
PROPERTIES
  StepsFollowTables
  CancelTakesEffect
  RunSettles
\* A run that has reached a stopping point, with nobody asking anything more, stays there.
CHECK_DEADLOCK FALSE
