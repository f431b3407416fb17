\* Admission engine: five pods and an empty request, two cores, dry runs, binds and deletes.
\* The daemon process stops for good when deletePod panics (no restart in
\* this specification), so a final state is not a deadlock.
CONSTANTS
  Pods = {"n0", "n1", "n2", "n3", "n4", "e"}
  PodTasks <- MCPodTasks
  NCPUs = 2
  MaxRestarts = 0
  Builds = {"csv"}
  MaxDbTasks = 0
  OpenFaults = FALSE
  MaxRebinds = 0
  SERVERPERIOD = 2500
  THRESHOLDSCHED = 80
SPECIFICATION AdmissionSpec
INVARIANT TypeOK
INVARIANT SchedulabilityPreserved
PROPERTY HigherPriorityBandsStable
PROPERTY BindReportExact
PROPERTY BindBandsLeast
CHECK_DEADLOCK FALSE
