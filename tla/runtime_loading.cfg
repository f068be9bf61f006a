SPECIFICATION FairSpec
CONSTANTS
  numba = numba
  other = other
  field = field
  dotted = dotted
  bitcode = bitcode
  bytecode = bytecode
  long = long
  int = int
  Threads = {t1, t2}
  Providers <- MCProviders
  NumbaRuntime = numba
  Entries <- MCEntries
  Names = {field, dotted}
  Sanitized <- MCSanitized
  Types = {long, int}
  Absent = Absent
  Pointer = long
  Classes = {bitcode, bytecode}
  FromBitcode = {bitcode}
  References <- MCReferences
  MaxCalls = 4
  MaxChanges = 1
INVARIANTS TypeOK InitializedMeansComplete LibrariesLoadOnce ReadyClassesHaveTheirApi LoadedClassesResolve ReadsFailOnlyAfterChanges
PROPERTIES CallsEnd
CHECK_DEADLOCK FALSE
