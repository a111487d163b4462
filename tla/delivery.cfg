SPECIFICATION Spec
CONSTANTS
  Steps <- Delivery
  MaxRetries = 0
  FollowUp = FALSE
  Faults = {"gh"}
  Budget <- Crash1Retry1Cancel1
INVARIANTS
  AtMostOnePr
  NoEffectWithoutConsent
PROPERTIES
  DecisionIsFinal
\* A run that has reached a stopping point, with nobody asking anything more, stays there.
CHECK_DEADLOCK FALSE
