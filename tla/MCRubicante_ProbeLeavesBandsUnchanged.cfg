\* Admission engine, five pods, two cores: checks ProbeLeavesBandsUnchanged alone.
CONSTANTS
  Pods = {"n0", "n1", "n2", "n3", "n4", "e"}
  PodTasks <- MCPodTasks
  NCPUs = 2
  MaxRestarts = 0
  Builds = {"csv"}
  MaxDbTasks = 0
  OpenFaults = FALSE
  MaxRebinds = 0
  SERVERPERIOD = 2500
  THRESHOLDSCHED = 80
SPECIFICATION AdmissionSpec
PROPERTY ProbeLeavesBandsUnchanged
CHECK_DEADLOCK FALSE
