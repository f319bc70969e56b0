CONSTANTS
  a1 = a1
  a2 = a2
  b1 = b1
  b2 = b2
  c1 = c1
  NULL = NULL
  Syms <- MCSyms
  name <- MCname
  hash <- MChash
  max_size = 2
SYMMETRY Alike
SPECIFICATION Spec
INVARIANTS
  TypeOK
  PointersAgree
PROPERTIES
  WalkIsExact
  ImplementsNameStacks
