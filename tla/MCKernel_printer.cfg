CONSTANTS
  a = a
  b = b
  c = c
  NULL = NULL
  Proc = {a, b}
  Sem = {}
  Unit <- OnePrinter
  ExcType = {}
  Priorities = {1, 2}
  MaxPriority = 2
  Allow = {}
  MaxSemValue = 1
  Failing <- NoUnit
SPECIFICATION FairSpec
PROPERTIES
  IoWaiterReleased
