SPECIFICATION StringsSpec
CONSTANTS
  Chunks = {c1, c2, c3, c4}
  Limits = {la, lb}
  NULL = NULL
  Uses = {"references", "null tracking", "pools", "limits", "strings"}
  Sizes = {1, 3}
  PoolSizes = {4}
  LimitSizes = {12}
  MaxDestructors = 1
  BackReferences = FALSE
  Texts <- Pieces
  StringPools = {10}
  MAX_TALLOC_SIZE = 4
  MaxStrings = 1
INVARIANTS
  ListsAreSound
  PoolsAreSound
  LimitsCount
  KeepsTalloc
  StringsSay
PROPERTIES
  ReferencesKeepAlive
SYMMETRY Renaming
CHECK_DEADLOCK FALSE
