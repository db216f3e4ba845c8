CONSTANTS
  a = a
  b = b
  c = c
  NULL = NULL
  Proc = {a, b, c}
  Sem = {}
  Unit <- OneDisk
  ExcType = {}
  Priorities = {1, 2}
  MaxPriority = 2
  Allow = {"kill_io_waiter"}
  MaxSemValue = 1
  Failing <- NoUnit
SPECIFICATION Spec
INVARIANTS
  InterruptFindsProcess
