SPECIFICATION Spec
CONSTANTS
  Width <- MCWidth
  Precision <- MCPrecision
  NaN = NaN
  NoResult = NoResult
CHECK_DEADLOCK FALSE
INVARIANTS TypeOK ComputesLlvm
