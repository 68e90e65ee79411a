SPECIFICATION Spec
CONSTANTS
  FANOUT = 2
  Tables = {4, 5, 6}
  TLB_SIZE = 1
  VPages = {0, 4}
  DramFirst = 4
  DramLast = 8
  Mmio = {0, 1}
  TableStores <- MCRemap
  MstatusWrites <- MCMprvWrites
  SatpWrites <- MCSatpSwitches
  InitialTables <- MCInitialTables
INVARIANTS
  TypeOK
  MmuStateFresh
  TlbSound
  DtlbSound
  IcacheSound
