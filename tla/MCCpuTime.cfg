CONSTANTS
  NULL = NULL
  p = p
  q = q
  Proc = {p, q}
  Wrap = 4
  MaxTicks = 4
SPECIFICATION Spec
INVARIANTS
  CpuTimeConserved
PROPERTIES
  TimesPlausible
SYMMETRY Symmetry
CHECK_DEADLOCK FALSE
