SPECIFICATION Spec
CONSTANTS
  s1 = s1
  s2 = s2
  Savers = {s1, s2}
  Overlap = FALSE
  MaxSaves = 3
  MaxEdits = 2
  MaxResumes = 2
  MaxCrashes = 2
  MaxDeletes = 1
SYMMETRY SaversSymmetry
INVARIANTS
  TypeOK
  OneTalent
  PromotedIsWhole
  EvidenceSound
  SavedAsReviewed
PROPERTY ImplementsPromotion
CHECK_DEADLOCK FALSE
