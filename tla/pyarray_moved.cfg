SPECIFICATION Spec
CONSTANTS
  Handles = {h1}
  Blocks = {b1, b2, b3}
  NoData = NoData
  ar1 = ar1
  ar2 = ar2
  Arrays = {ar1, ar2}
  Length <- MCLength
  ItemSize <- MCItemSize
  Places = {1, 2, 3}
  Garbage = Garbage
  Dims = {1, 2, 4}
  WordMax = 127
  MaxMoves = 1
  MaxFailures = 1
CHECK_DEADLOCK FALSE

INVARIANT CopiesTheArray
