SPECIFICATION Spec
CONSTANTS
  w1 = w1
  w2 = w2
  f1 = f1
  f2 = f2
  Workers <- MCWorkers
  Fields <- MCOneField
  Source = "upload"
  AttachmentWorker = FALSE
  MaxClaimAttempts = 3
  MaxMergeAttempts = 5
  MaxResumes = 2
  MaxEdits = 0
  MaxEvents = 2
  MaxCrashes = 0
CHECK_DEADLOCK FALSE
INVARIANT ResultOfCurrentResume
