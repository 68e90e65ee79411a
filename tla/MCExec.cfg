SPECIFICATION FairExecSpec
CONSTANTS
  XLEN = 8
  PAGE_SIZE = 8
  SCRATCH = 200
  STVEC = 192
  KernelTries = {64}
  p1 = p1
  p2 = p2
  w1 = w1
  w2 = w2
  w3 = w3
  NoWord = NoWord
  Threads <- MCThreads
  Words <- MCWords
  ImageNames <- MCImageNames
  Images <- MCImages
INVARIANTS
  ExecTypeOK
  ReservationOwned
PROPERTIES
  ImplementsIdeal
  ArithmeticRight
  ProgramsFinish
