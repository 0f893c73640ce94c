SPECIFICATION Spec
CONSTANTS
  MaxArray = 64
  IndexOf <- MCIndexOf
  Places = {p1, p2, p3}
  Sums <- MCSums
  Literals <- MCLiterals
  Addresses = {1, 2, 3, 4}
  StrHash <- MCHash
  ADD_CACHE_SIZE = 1
  ADD_CACHE_MAX_LENGTH = 2
  MaxHits = 1
  Names = {"m", "n"}
  Keys <- MCKeys
  Values <- MCValues
  Objects = {1}
  Operators = {"or", "and", "xor", "sub", "add"}
  ColumnIds = {1, 2, 3, 4, 5, 6}
  MaxEntries = 3
  WritesShared = FALSE
  MaxCalls = 3
  SMALL_BLOCK_MAX = 3  SMALL_CHUNK = 8  CHUNK = 16
  MemorySize = 44
  Reserve = 5
  Requests = {1, 3, 4, 7}
  MaxAllocations = 5
  EXPANDMAX = 60
  Files <- MCFiles
  FileTrees <- MCFileTrees
  IncludeDirs <- MCDirs
  Efuns = {"write"}
CHECK_DEADLOCK FALSE
INVARIANTS ArraysAsDefined TextsAsDefined SavedReadBack StringsShared BlocksKept SourcesReadRight
PROPERTY AsSpecified
