SPECIFICATION Spec
CONSTANTS
  Threads = {t1, t2}
  Addresses <- MCAddresses
  Bases <- TwoBases
  Capacity = 24
  Requests = {4, 8}
  IntMax <- MCIntMax
  MaxFrames = 4
  Unmapped = Unmapped
  MaxCalls = 3
SYMMETRY Symmetry
CHECK_DEADLOCK FALSE
INVARIANTS TypeOK FramesMatchCalls LocalsStayLive LocalsApart IdleStackIsEmpty
