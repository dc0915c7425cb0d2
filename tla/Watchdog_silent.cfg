SPECIFICATION Spec
CONSTANTS
  Days = 4
  Sla = 30
INVARIANT StaleDataAlarms
CHECK_DEADLOCK FALSE
