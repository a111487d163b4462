SPECIFICATION Spec
CONSTANTS
  Steps <- Feature
  MaxRetries = 1
  FollowUp = TRUE
  Faults = {"exit", "gh", "push", "spawn"}
  Budget <- Retry1Cancel1
INVARIANTS
  VisitRunsOnce
  FailureBudget
  CancelledIsClean
  SuccessIsPushed
\* A run that has reached a stopping point, with nobody asking anything more, stays there.
CHECK_DEADLOCK FALSE
