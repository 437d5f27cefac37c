SPECIFICATION FairSpec
CONSTANTS
  a = a
  b = b
  c = c
  Messages = {a, b, c}
  Length <- ShortLength
  Senders = {s1, s2}
  IdCount = 2
  IdsAge = TRUE
INVARIANTS TypeOK Integrity OneMessagePerId NothingLeftBehind
PROPERTIES TakesTurns ArrivesUnlessDropped
CHECK_DEADLOCK FALSE
