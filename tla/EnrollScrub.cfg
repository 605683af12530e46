SPECIFICATION Spec
CONSTANTS
  Tokens = {t1, t2}
  None = None
  MaxAttempts = 2
  MaxKeys = 2
INVARIANT
  Scrubbed
