SPECIFICATION FairSpec
CONSTANTS
  Tokens = {t1, t2}
  None = None
  MaxAttempts = 2
  MaxKeys = 2
CONSTRAINT OneTrouble
INVARIANTS
  TypeOK
  ReplaySafe
  CertsMatchState
  LeftoverKnown
  DaemonCurrent
PROPERTY
  FoundTokenLeaves
