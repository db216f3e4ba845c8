CONSTANTS
  NULL = NULL
  p1 = p1
  p2 = p2
  a = a
  Proc = {p1, p2}
  Result = {a}
  LastPc = 0
  ExcType = {"SYSBK", "TRAP"}
SPECIFICATION Spec
INVARIANT StatesKept
SYMMETRY Symmetry
VIEW View
