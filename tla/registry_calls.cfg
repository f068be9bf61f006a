SPECIFICATION FairSpec
CONSTANTS
  Threads = {t1, t2}
  l1 = l1
  l2 = l2
  f = f
  c = c
  Loaders = {l1, l2}
  ClassFiles = {c}
  NoFile = NoFile
  Names = {f}
  Defines <- MCDefines
  Signatures = {s1}
  CacheSize = 1
  MaxCalls = 2
  Nobody = Nobody
INVARIANTS TypeOK MonitorMatchesCalls NullOnlyAfterWithdrawal
PROPERTIES ResolvesAfresh MonitorIsReleased
