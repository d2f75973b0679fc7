SPECIFICATION FairSpec
CONSTANTS
  w1 = w1
  w2 = w2
  f1 = f1
  f2 = f2
  Workers <- MCWorkers
  Fields <- MCOneField
  Source = "manual"
  AttachmentWorker = TRUE
  MaxClaimAttempts = 3
  MaxMergeAttempts = 2
  MaxResumes = 1
  MaxEdits = 1
  MaxEvents = 2
  MaxCrashes = 0
CHECK_DEADLOCK FALSE
PROPERTY QueuedSettles
