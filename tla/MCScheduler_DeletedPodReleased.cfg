\* Delete inverse of bind: a podBind that commits after the pod was deleted.
\* No lost messages: the leak needs only the delete event racing PreBind.
CONSTANTS
  Nodes = {"m1", "m2"}
  None = None
  Pods = {"a", "b", "c"}
  PodTasks <- MCPodTasks
  NoWcet <- MCNoWcet
  NCPUs = 1
  SERVERPERIOD = 2500
  THRESHOLDSCHED = 90
  MaxLost = 0
  MaxTombstones = 0
  Assurance <- MCAssurance
  Mode = "Least"
  IntWidth = 16
SPECIFICATION Spec
INVARIANT DeletedPodReleased
CHECK_DEADLOCK FALSE
