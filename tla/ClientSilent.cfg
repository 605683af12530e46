SPECIFICATION Spec
CONSTANTS
  Changes = {c1, c2}
  Slots = {1, 2}
  None = None
PROPERTY
  ToldHowMidway
CHECK_DEADLOCK FALSE
