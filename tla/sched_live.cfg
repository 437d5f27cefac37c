SPECIFICATION FairSpec
CONSTANTS
  a = a
  b = b
  in = in
  Lit = Lit
  Nobody = Nobody
  NoBox = NoBox
  Threads = {t1, t2, t3}
  Cells = {a, b}
  Inputs = {}
  Order <- MCOrder
  Sources <- LoopSources
  Ops <- LoopOps
  MaxSteps = 1
  Named = {}
  Slots = {1}
  Marks = {0}
PROPERTIES EveryCellServed WorkersStop
