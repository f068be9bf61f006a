SPECIFICATION ClassesFairSpec
CONSTANTS
  Threads = {t1, t2}
  Addresses <- MCAddresses
  Bases <- TwoBases
  Capacity = 32
  Requests = {4, 8}
  IntMax <- MCIntMax
  MaxFrames = 0
  Unmapped = Unmapped
  c1 = c1
  c2 = c2
  c3 = c3
  Classes = {c1, c2, c3}
  Globals <- MCGlobals
  NoClass = NoClass
INVARIANTS ClassesTypeOK LatestGlobalsLive
PROPERTIES InitializationEnds
