SPECIFICATION Spec
CONSTANTS
  Procs = {"daemon", "foreground"}
  Daemon = "daemon"
  Tasks = {1}
  Deps <- Alone
  Clash <- NoClash
  Variants = 1
  MaxParallel = 1
  Stacked = FALSE
  Room = 1
  Worlds <- TwoProcesses
PROPERTY SuccessStays
CHECK_DEADLOCK FALSE
