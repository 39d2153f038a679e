SPECIFICATION Spec
CONSTANTS
  Funcs = {f, g, h}
  Vars = {v, w}
  Library = {puts}
  f = f  g = g  h = h  v = v  w = w  puts = puts
  Units = 2
  Programs <- MCPrograms
  NULL = NULL
INVARIANTS EntriesKept OneVersion SymbolsFound
CHECK_DEADLOCK FALSE
