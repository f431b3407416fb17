\* Persistence and crash recovery, three pods, one core, one restart:
\* checks RecoveredTasksIntact alone.
CONSTANTS
  Pods = {"n0", "n1", "n3"}
  PodTasks <- MCPodTasks
  NCPUs = 1
  MaxRestarts = 1
  Builds = {"csv"}
  MaxDbTasks = 0
  OpenFaults = FALSE
  MaxRebinds = 0
  SERVERPERIOD = 2500
  THRESHOLDSCHED = 80
SPECIFICATION Spec
INVARIANT RecoveredTasksIntact
CHECK_DEADLOCK FALSE
