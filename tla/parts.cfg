SPECIFICATION MCSpec
CONSTANTS
  Machines = {"worktree", "store", "audit", "policy", "watchdog", "workflow", "shift", "pull", "contract"}
  Base = base
  Tasks = {t1, t2}
  Schedulers = {p1, p2}
  MaxRetries = 1
  Writers = {w1, w2}
  Readers = {r1}
  Appenders = {a1, a2, a3}
  Files = {"builtin", "company", "project"}
  Builtin = "builtin"
  Rules <- OneOfEachKind
  Builtins <- Shipped
  Owns <- UpToThreeSteps
  Plans <- ChecksAndCommands
  IdleAfter = 4
  StallAfter = 8
  RepeatThreshold = 2
  Gaps = {1, 8}
  MaxObservations = 4
  MaxShifts = 2
  Commands = {c1}
  MaxFeedback = 2
  MaxTasks = 2
  TestFiles = {p1}
  MaxText = 2
  MaxAttempts = 1
  MaxByHand = 2
  MaxCrashes = 1
  None = None
INVARIANTS ClaimsAlone ChangesKept LogVerifies PolicyAsLayered WatchdogFires RunsAsAgreed ShiftHolds SeenIsKnown HeldToContract
CHECK_DEADLOCK FALSE
