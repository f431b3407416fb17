\* Admission engine, four pods of profile A and one of profile B on one
\* core: checks CoreWithinThreshold alone.
CONSTANTS
  Pods = {"a1", "a2", "a3", "a4", "b"}
  PodTasks <- MCThresholdTasks
  NCPUs = 1
  MaxRestarts = 0
  Builds = {"csv"}
  MaxDbTasks = 0
  OpenFaults = FALSE
  MaxRebinds = 0
  SERVERPERIOD = 2500
  THRESHOLDSCHED = 80
SPECIFICATION AdmissionSpec
INVARIANT CoreWithinThreshold
CHECK_DEADLOCK FALSE
