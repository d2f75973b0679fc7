SPECIFICATION FairSpec
CONSTANTS
  w1 = w1
  w2 = w2
  f1 = f1
  f2 = f2
  Workers <- MCWorkers
  Fields <- MCOneField
  Source = "upload"
  AttachmentWorker = FALSE
  MaxClaimAttempts = 3
  MaxMergeAttempts = 5
  MaxResumes = 1
  MaxEdits = 0
  MaxEvents = 1
  MaxCrashes = 1
CHECK_DEADLOCK FALSE
PROPERTY QueuedSettles
