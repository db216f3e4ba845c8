CONSTANTS
  a = a
  b = b
  c = c
  NULL = NULL
  Proc = {a, b}
  Sem = {}
  Unit <- TapeAndTerminal
  ExcType = {}
  Priorities = {1, 2}
  MaxPriority = 2
  Allow = {}
  MaxSemValue = 1
  Failing <- OneTape
SPECIFICATION FairSpec
INVARIANTS
  AslExact
  IoMatched
PROPERTIES
  IoReleasedByCompletion
  KernelReturns
  IoWaiterReleased
