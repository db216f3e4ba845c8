SPECIFICATION Spec
INVARIANTS
  ServesEachRaised
CHECK_DEADLOCK FALSE
