\* Checks MasterSlicesDisjoint alone, with every call to the master answered.
CONSTANTS
  Pods = {"p1", "p2", "p3", "p4"}
  NoPod = NoPod
  NoTDMA = NoTDMA
  BadSpec = BadSpec
  Req <- MCReq
  CYCLE = 260
  MaxFaults = 0
SPECIFICATION Spec
INVARIANT MasterSlicesDisjoint
CHECK_DEADLOCK FALSE
