CONSTANTS
  Pairs <- MCPairs
  Order <- MCOrder
  Local = "fw"
  NetZones = {"dmz", "lan", "wan", "vpn"}
  Sides <- MCSides
  StartConfs <- MCStarts
  AcActions = {"x", "y", "z"}
  FailedReads = {{"geo", "ssl", "ac"}}
  MaxBound = 2
  MaxCommits = 2
SPECIFICATION Spec
INVARIANT TypeOK
PROPERTIES RulesEnforced RulesStayDistinct CopiesStayEqual RulesKept ServicesSound ServicesKept
CHECK_DEADLOCK FALSE
