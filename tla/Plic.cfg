SPECIFICATION PlicSpec
CONSTANTS
  PLIC_MAX_SOURCE = 4
  WORD = 2
  Contexts = {1}
  PriorityValues = {1, 2}
INVARIANTS
  PlicTypeOK
  SummaryExact
  PollAgreesWithClaim
  ClaimFindsHighest
PROPERTY
  LatchLostOnlyByClaim
