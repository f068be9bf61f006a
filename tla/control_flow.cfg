SPECIFICATION Spec
CONSTANTS
  Programs <- Ordinary
  Values <- MCValues
  Args <- MCArgs
  Returned = Returned
INVARIANTS TypeOK BlocksStartWithEmptyStack InstructionsCanRun
PROPERTY Refinement
