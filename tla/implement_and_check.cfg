SPECIFICATION Spec
CONSTANTS
  Steps <- AgentAndCheck
  MaxRetries = 1
  FollowUp = FALSE
  Faults = {"exit", "death", "verdict", "block"}
  Budget <- Crash1Retry1Cancel1
INVARIANTS
  PromptedAtMostOnce
  SuccessIsEarned
PROPERTIES
  FollowsOutline
  StoppedMeansStopped
\* A run that has reached a stopping point, with nobody asking anything more, stays there.
CHECK_DEADLOCK FALSE
