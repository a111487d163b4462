SPECIFICATION FairSpec
CONSTANTS
  Keys <- PlanKeys
  FollowUpKeys <- FollowUps
  Humans = {"human"}
  Daemon = "daemon"
  Proposals <- Proposed
  Edits <- Edited
  Reviews <- Reviewed
  MaxPlanTasks = 2
  MaxTasks = 4
  MaxCommands = 4
  MaxFailures = 1
INVARIANTS
  DependenciesCarried
  PlanOrdered
  DecisionsStay
PROPERTIES
  PlanningAnswered
CHECK_DEADLOCK FALSE
