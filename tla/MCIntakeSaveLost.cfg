SPECIFICATION Spec
CONSTANTS
  s1 = s1
  s2 = s2
  Savers = {s1}
  Overlap = TRUE
  MaxSaves = 1
  MaxEdits = 1
  MaxResumes = 1
  MaxCrashes = 0
  MaxDeletes = 0
PROPERTY CarriesReview
CHECK_DEADLOCK FALSE
