SPECIFICATION Spec
CONSTANTS
  Threads = {t1}
  Addresses <- MCAddresses
  Bases <- OneThreadBases
  Capacity = 32
  Requests = {8, 32764}
  IntMax <- MCIntMax
  MaxFrames = 2
  Unmapped = Unmapped
INVARIANT CurrentAddrInFragment
