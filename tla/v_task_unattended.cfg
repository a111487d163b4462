SPECIFICATION MCSpec
CONSTANTS
  MaxSwallowed = 2
  Machines = {"daemon"}
  Procs = {d1, d2}
  Tasks = {t1, t2}
  Crashes = FALSE
  None = None
PROPERTIES QueuedIsServed
CHECK_DEADLOCK FALSE
