SPECIFICATION Spec
CONSTANTS
  FANOUT = 2
  Tables = {4, 5, 6}
  TLB_SIZE = 1
  VPages = {0, 4}
  DramFirst = 4
  DramLast = 9
  Mmio = {1}
  TableStores <- MCTableStores
  MstatusWrites <- MCMstatusWrites
  SatpWrites <- MCSatpWrites
  InitialTables <- MCInitialTables
INVARIANT FetchFenced
