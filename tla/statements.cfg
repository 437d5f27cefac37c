SPECIFICATION Spec
CONSTANTS
  Nodes <- Tree
  First <- FirstOf
  Second <- SecondOf
  Body = 1
  Function = 8
  Programs <- AllPrograms
  Nested <- NestedIn
INVARIANTS TypeOK NothingPending
PROPERTIES ImplementsStructuredFlow
CHECK_DEADLOCK FALSE
