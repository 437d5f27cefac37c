SPECIFICATION FairSpec
CONSTANTS
  Cells = {"x"}
  Aliases <- SomeAliases
  RemoteOf <- SomeRemote
  Conns = {"c", "d"}
  NoConn = "no"
  MaxVersion = 1
  NetSize = 2
INVARIANTS TypeOK ShowsRemote
PROPERTIES Converges
CHECK_DEADLOCK FALSE
