\* Every order of PreFilter, Reserve, binding, Unreserve and podDelete of
\* two TDMA pods, a pod without network requirements and a pod with a bad
\* TDMA annotation, with one failed call to the master.
CONSTANTS
  Pods = {"p1", "p2", "p3", "p4"}
  NoPod = NoPod
  NoTDMA = NoTDMA
  BadSpec = BadSpec
  Req <- MCReq
  CYCLE = 260
  MaxFaults = 1
SPECIFICATION Spec
INVARIANT TypeOK SlicesSeparated
PROPERTY PreFilterAgreesWithReserve AllocatorRefined
CHECK_DEADLOCK FALSE
