SPECIFICATION Spec
CONSTANTS
  r1 = r1
  r2 = r2
  c1 = c1
  c2 = c2
  None = None
  Requests <- MCRequests
  Codes <- MCCodes
  MaxTokens = 3
SYMMETRY Symmetry
INVARIANTS
  TypeOK
  FamilyIsChain
  DeviceSound
  CodeOnce
PROPERTIES
  ImplementsCredentials
\* Nobody has to sign in or come back.
CHECK_DEADLOCK FALSE
