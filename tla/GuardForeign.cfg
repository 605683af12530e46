SPECIFICATION Spec
CONSTANTS
  Ops = {o1}
  Requests = {r1}
  Key = Key
  Foreign = Foreign
  None = None
INVARIANT
  SettledWithForeign
