SPECIFICATION Spec
CONSTANTS
  e1 = e1
  e2 = e2
  r1 = r1
  r2 = r2
  w1 = w1
  Episodes = {e1, e2}
  Recruiters = {r1, r2}
  Workers = {w1}
  MaxMoves = 3
  MaxPlaced = 1
  MaxCrashes = 1
SYMMETRY PeopleSymmetry
INVARIANTS
  TypeOK
  OneLiveEpisode
  HistorySound
  EvidenceGrounded
  DispositionMatches
  InboxTruthful
PROPERTIES
  NoStaleDecision
  ImplementsLedger
CHECK_DEADLOCK FALSE
