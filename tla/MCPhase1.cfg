CONSTANTS
  NULL = NULL
  MaxProc = 2
  k = k
  l = l
  m = m
  Key = {k, l, m}
  Priorities = {1, 2}
SPECIFICATION Spec
PROPERTY KeepsContract
SYMMETRY Symmetry
VIEW View
