CONSTANTS
  a = a
  b = b
  c = c
  NULL = NULL
  Proc = {a, b, c}
  Sem = {s}
  Unit <- OneDisk
  ExcType = {}
  Priorities = {1, 2}
  MaxPriority = 2
  Allow = {"kill_io_waiter", "share_device"}
  MaxSemValue = 1
  Failing <- NoUnit
SPECIFICATION Spec
INVARIANTS
  TypeOK
  PcbPartition
  AslExact
  ProcessTree
  KillPath
  SemZeroWhenWaiting
  WorkConserving
  QueuesSorted
  AgingBounded
SYMMETRY Symmetry
CHECK_DEADLOCK FALSE
