\* Persistence and crash recovery in both storage builds: two pods, one
\* core, one repeated bind of a held name, the dump routine, process
\* deaths and at most two restarts.  After
\* the last restart a dead daemon stays down, so a final state is not a deadlock.
CONSTANTS
  Pods = {"n0", "n1"}
  PodTasks <- MCPodTasks
  NCPUs = 1
  MaxRestarts = 2
  Builds = {"csv", "sqlite"}
  MaxDbTasks = 4
  OpenFaults = TRUE
  MaxRebinds = 1
  SERVERPERIOD = 2500
  THRESHOLDSCHED = 80
SPECIFICATION Spec
INVARIANT FlushedPodsStored
CHECK_DEADLOCK FALSE
