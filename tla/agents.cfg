SPECIFICATION MCSpec
CONSTANTS
  MaxSwallowed = 2
  Machines = {"pane", "headless", "daemon"}
  Procs = {d1, d2}
  Tasks = {t1, t2}
  Crashes = TRUE
  None = None
INVARIANTS StoppedIsDead OneDaemon
PROPERTIES Implements HeadlessImplements RunnersEnd
CHECK_DEADLOCK FALSE
