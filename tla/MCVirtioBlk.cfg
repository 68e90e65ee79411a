SPECIFICATION BlkSpec
CONSTANTS
  QUEUE_SIZE = 2
  IDX = 4
  h1 = h1
  h2 = h2
  old = old
  new = new
  Nothing = Nothing
  Heads = {h1, h2}
  Contents = {old, new}
  Blank = old
  Sectors <- MCSectors
  Bad <- MCBad
  Requests <- MCRequests
INVARIANTS
  BlkTypeOK
  ChainsConserved
  AnswersRight
  AnswersAnnounced
