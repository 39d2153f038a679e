SPECIFICATION Spec
CONSTANTS
  malloc = malloc
  malloc_usable_size = malloc_usable_size
  other = other
  Names <- MCNames
  Wanted = malloc
  Longer <- MCLonger
  LinkMaps <- MCLinkMaps
  Blocks = {b1, b2}
  Pages = {p1, p2}
  NULL = NULL
  MAP_FAILED = MAP_FAILED
  Errno = Errno
  Own = Own
  SYS_mmap = SYS_mmap
  Stops = {"afterCall", "leaf", "inMalloc"}
  MaxCalls = 2
  MaxForeign = 2
INVARIANTS TargetIsItsOwn OnlyRefusalLeavesCode MallocIsTheTargets
PROPERTIES ImplementsAtomicCalls KatanaEnds
CHECK_DEADLOCK FALSE
