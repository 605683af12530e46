SPECIFICATION Spec
CONSTANTS
  Ops = {o1, o2}
  Requests = {r1, r2}
  Key = Key
  Foreign = Foreign
  None = None
SYMMETRY Symmetry
INVARIANTS
  TypeOK
  Settled
  SnapshotIsRevertTarget
  BootAccepted
  WebUiAccessKept
  NoApplyDuringRevert
