SPECIFICATION CcSpec
CONSTANTS
  Inputs <- MCInputs
  Sayings <- MCSayings
  Overrides <- MCOverrides
  BadSums <- MCBadSums
  MaxRaises = 2
  MaxCalls = 1
  Threads = {1, 2}
  Asks <- MCAsks
  Scores <- MCScores
  MlScores <- MCMlScores
INVARIANTS
  
  
  AloneUsesOwnMode
  LayerMaskingIsExact
  AnswersFitVerdicts
PROPERTIES
  ImplementsMaskingCall
\* a pipeline may be asked nothing more, and every request gets its answer
CHECK_DEADLOCK FALSE
