CONSTANTS
  Rows <- MCRows
  Workers = {w1, w2}
  Handlers = {h1, h2}
  Known <- MCKnown
  Unmappable <- MCUnmappable
  Limit = 1
  MaxAttempts = 2
  BackoffOnRelease = TRUE
  Drafts = {}
  SubjectOf <- MCSubjectOf
SPECIFICATION FairSpec
INVARIANTS
  TypeOK
  ClaimTokensDistinct
  QuarantineJustified
PROPERTIES
  ImplementsDelivery
  EveryRowSettles
CHECK_DEADLOCK FALSE
