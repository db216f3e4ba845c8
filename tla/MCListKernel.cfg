CONSTANTS
  NULL = NULL
  MaxProc = 3
  s = s
  t = t
  Sem = {s}
  Priorities = {1, 2}
  MaxPriority = 2
  MaxSemValue = 1
SPECIFICATION Spec
INVARIANTS
  ListsWellFormed
  ChildrenAgree
PROPERTY
  ImplementsKernel
SYMMETRY Symmetry
