SPECIFICATION FairSpec
CONSTANTS
  Unknown = Unknown
  CategoryOf <- Catalog
  MaxActionId = 2
  Flows = {"f1", "f2"}
  Policies <- MCPolicies
  NoTable = NoTable
  MaxPackets = 2
  MaxEntries = 1
  MaxQueue = 2
CONSTRAINT OneTrouble
INVARIANTS
  TypeOK
  BlockedIsDropped
  JudgedAsBound
  TableSound
  RulesAgree
PROPERTIES
  VerdictSticks
  FlowsGetDecided
