SPECIFICATION FairSpec
CONSTANTS
  Ops = {o1, o2}
  Requests = {r1}
  Key = Key
  Foreign = Foreign
  None = None
PROPERTIES
  UnconfirmedEnds
  ImplementsCommitConfirm
