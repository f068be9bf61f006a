SPECIFICATION Spec
CONSTANTS
  Number = Number
  number2 = number2
  Sum = Sum
  Less = Less
  Convert = Convert
  Address = Address
  Arguments <- MCArguments
  Pointee <- S
  ArgumentAddress <- MCArgumentAddress
  HeapBase = 1000
  StackBase = 2000
  Allocated <- MCAllocated
  GlobalLists <- MCGlobalLists
  Masks <- MCMasks
  CastWidths = {2, 4, 8}
  MaxInstructions = 3
  Divergences = {}
CHECK_DEADLOCK FALSE
INVARIANTS TypeOK RegistersHoldLlvmValues PointersReachTheirObjects
PROPERTY WritesStayInBlocks
