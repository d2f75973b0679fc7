SPECIFICATION FairSpec
CONSTANTS
  a = a
  b = b
  Signers = {a, b}
  Setups <- AllSetups
  Values = {v1, v2}
  None = None
  Documents = {d1, d2}
  Workers = {w1}
  MaxCodeAttempts = 2
  MaxAttempts = 2
  MaxSessions = 2
  MaxSlow = 0
  MaxCrashes = 1
INVARIANTS
  TypeOK
  CompletedIsSound
  ActsInTurn
  SessionsSound
  OutcomeSound
PROPERTIES
  RowsFrozen
  ImplementsLifecycle
  InvitationSettles
  ExecutionFollows
