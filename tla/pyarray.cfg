SPECIFICATION Spec
CONSTANTS
  Handles = {h1, h2}
  Blocks = {b1, b2, b3, b4}
  NoData = NoData
  ar1 = ar1
  ar2 = ar2
  Arrays = {ar1, ar2}
  Length <- MCLength
  ItemSize <- MCItemSize
  Places = {p1, p2, p3}
  Garbage = Garbage
  Dims = {2, 4}
  WordMax = 127
  MaxMoves = 1
  MaxFailures = 1
CHECK_DEADLOCK FALSE
SYMMETRY Symmetry
INVARIANTS TypeOK LayoutMatchesItems MemoryIsOwned DataStaysIntact
