\* Scheduler and daemons: two nodes, three pods, one lost podBind message.
\* A final state (every pod bound, parked or deleted) is not a deadlock.
CONSTANTS
  Nodes = {"m1", "m2"}
  None = None
  Pods = {"a", "b", "c"}
  PodTasks <- MCPodTasks
  NoWcet <- MCNoWcet
  NCPUs = 1
  SERVERPERIOD = 2500
  THRESHOLDSCHED = 90
  MaxLost = 1
  MaxTombstones = 1
  Assurance <- MCAssurance
  Mode = "Least"
  IntWidth = 16
SPECIFICATION Spec
INVARIANT BoundPodHeld
PROPERTY BestNodeNotDominated
CHECK_DEADLOCK FALSE
