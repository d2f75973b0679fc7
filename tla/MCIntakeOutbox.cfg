CONSTANTS
  Rows <- MCRows
  Workers = {w1, w2}
  Handlers = {h1, h2}
  Known <- MCRows
  Unmappable <- MCUnmappable
  Limit = 2
  MaxAttempts = 2
  BackoffOnRelease = FALSE
  Drafts = {"draft"}
  SubjectOf <- MCSubjectOf
SPECIFICATION Spec
INVARIANTS
  PublishedOnlyWhenHandled
PROPERTIES
  PublishedIsFinal
CHECK_DEADLOCK FALSE
