SPECIFICATION Spec
CONSTANTS
  Changes = {c1, c2}
  Slots = {1, 2}
  None = None
CONSTRAINT OneTrouble
SYMMETRY Symmetry
INVARIANTS
  TypeOK
  NoticesTrue
  DialogAnswered
  CountdownShown
  BootSaveHonest
PROPERTY
  ToldHow
CHECK_DEADLOCK FALSE
