SPECIFICATION Spec
CONSTANTS
  Types = {int, long, enum, A, B, pA, pB, cA, pcA, cB, pcB, U, arr}
  int = int  long = long  enum = enum  A = A  B = B  pA = pA  pB = pB  cA = cA  pcA = pcA cB = cB pcB = pcB
  U = U  arr = arr  p = p  q = q  r = r
  Kind <- MCKind
  Pointed <- MCPointed
  Size <- MCSize
  Anonymous = {U}
  Programs <- MCPrograms
  Vars = {p, q, r}
  f1 = f1
  Funcs = {f1}
  Rewritten = {}
  Variadic = {}
  Uses <- MCUses
  Refs <- NoRefs
  NULL = NULL
INVARIANTS SameIsSame PointersLeadToTransforms DiffDepthBounded FdesFit
CHECK_DEADLOCK FALSE
