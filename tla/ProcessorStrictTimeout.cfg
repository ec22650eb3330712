SPECIFICATION Spec
CONSTANTS
  Calls <- AllCalls
  NamesFound = TRUE
  Faults = {"config", "detector", "classifier", "compile", "optimize"}
  MaxRetries = 2
  MaxCopies = 3
INVARIANTS
  StrictRefusesUnprocessed
\* A call ends; EveryCallEnds is what says that it does not stop before.
CHECK_DEADLOCK FALSE
