SPECIFICATION Spec
CONSTANTS
  Threads = {t1}
  Addresses <- OneThreadAddresses
  Bases <- OneThreadBases
  Capacity = 32
  Requests = {0, 8, 13}
  IntMax <- MCIntMax
  MaxFrames = 2
  Unmapped = Unmapped
INVARIANTS TypeOK BlocksInFragment BlocksDisjoint NoLostSpace CurrentAddrInFragment
PROPERTY Refinement
