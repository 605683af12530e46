CONSTANTS
  Text <- MCText
  Ed <- MCAll
  MaxOthers = 1
SPECIFICATION Spec
INVARIANT TypeOK
PROPERTIES
  SavedAsEntered
  OnlyEdited
  AcceptedWhenFresh
  DeletesOneRow
  DistinctSubnetIds
CHECK_DEADLOCK FALSE
