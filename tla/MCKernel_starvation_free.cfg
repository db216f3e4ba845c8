CONSTANTS
  a = a
  b = b
  c = c
  NULL = NULL
  Proc = {a, b, c}
  Sem = {}
  Unit <- NoUnit
  ExcType = {2}
  Priorities = {1, 2}
  MaxPriority = 2
  Allow = {}
  MaxSemValue = 1
  Failing <- NoUnit
SPECIFICATION FairSpec
PROPERTIES
  NoStarvation
