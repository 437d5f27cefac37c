SPECIFICATION Spec
CONSTANTS
  a = a
  b = b
  in = in
  Lit = Lit
  Nobody = Nobody
  NoBox = NoBox
  Threads = {t1, t2}
  Cells = {a, b}
  Inputs = {}
  Order <- MCOrder
  Sources <- CounterSources
  Ops <- CounterOps
  MaxSteps = 1
  Named = {}
  Slots = {1, 2, 3}
  Marks = {0}
INVARIANT NoRaceAmongThreads
