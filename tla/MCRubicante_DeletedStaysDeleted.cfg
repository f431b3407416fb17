\* Persistence and crash recovery, one pod (so deletePod cannot panic),
\* one core, one restart: checks DeletedStaysDeleted alone.
CONSTANTS
  Pods = {"n0"}
  PodTasks <- MCPodTasks
  NCPUs = 1
  MaxRestarts = 1
  Builds = {"csv"}
  MaxDbTasks = 0
  OpenFaults = FALSE
  MaxRebinds = 0
  SERVERPERIOD = 2500
  THRESHOLDSCHED = 80
SPECIFICATION Spec
INVARIANT DeletedStaysDeleted
CHECK_DEADLOCK FALSE
