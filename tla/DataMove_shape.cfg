SPECIFICATION FairSpec
CONSTANTS
  Vars = {v1, v2, v3}
  Heap = {h1, h2}
  Fields = {next}
  Graphs <- MCGraphs
  InPatch = {v1, v2}
  Key <- KeyIsAddress
  Initialized <- MCInitialized
  v1 = v1  v2 = v2  h1 = h1  next = next
  MaxMalloc = 4
  NULL = NULL
INVARIANTS SameShape RecursionBounded WrittenDataIsComplete
PROPERTIES Ends
CHECK_DEADLOCK FALSE
