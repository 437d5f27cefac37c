SPECIFICATION Spec
CONSTANTS
  a = a
  b = b
  in = in
  Lit = Lit
  Nobody = Nobody
  NoBox = NoBox
  Threads = {t1, t2}
  Cells = {a, b}
  Inputs = {in}
  Order <- MCOrder
  Sources <- WildSources
  Ops <- WildOps
  MaxSteps = 1
  Named = {a}
  Slots = {1, 2, 3}
  Marks = {0}
SYMMETRY Symmetry
INVARIANTS TypeOK MutualExclusion LocksAreHeld OutputAgrees OwnValues
