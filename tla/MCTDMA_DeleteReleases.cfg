\* Checks DeleteReleases alone over the pods and cycle of MCTDMA.cfg.
CONSTANTS
  Pods = {"p1", "p2", "p3", "p4"}
  NoPod = NoPod
  NoTDMA = NoTDMA
  BadSpec = BadSpec
  Req <- MCReq
  CYCLE = 260
  MaxFaults = 1
SPECIFICATION Spec
PROPERTY DeleteReleases
CHECK_DEADLOCK FALSE
