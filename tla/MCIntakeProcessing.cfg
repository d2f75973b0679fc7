SPECIFICATION Spec
CONSTANTS
  w1 = w1
  w2 = w2
  f1 = f1
  f2 = f2
  Workers <- MCWorkers
  Fields <- MCOneField
  Source = "upload"
  AttachmentWorker = FALSE
  MaxClaimAttempts = 3
  MaxMergeAttempts = 2
  MaxResumes = 2
  MaxEdits = 1
  MaxEvents = 2
  MaxCrashes = 1
SYMMETRY Symmetry
CHECK_DEADLOCK FALSE
INVARIANTS
  TypeOK
  OneClaimPerQueueing
  RecruiterEditsKept
PROPERTY PromotedReviewFrozen
