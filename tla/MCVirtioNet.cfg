SPECIFICATION NetSpec
CONSTANTS
  QUEUE_SIZE = 2
  IDX = 4
  RING = 2
  r1 = r1
  r2 = r2
  t1 = t1
  short = short
  long = long
  Nothing = Nothing
  RxHeads <- MCRxHeads
  TxHeads <- MCTxHeads
  RxChains <- MCRxChains
  MAX_PKT = 2
  Frames <- MCFrames
  Packets <- MCPackets
INVARIANTS
  NetTypeOK
  BuffersConserved
  ReturnsAnnounced
PROPERTY ImplementsPromise
