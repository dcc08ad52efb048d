SPECIFICATION SimulationSpec
CONSTANTS
  Progs <- Programs
  Handler = 7
  CodePage = 2
  Request = 3
  MaxInsns = 8
  ExeTrace = 5
  StfModes <- Modes
  StfStart = 3
  StfLength = 4
  StfPrivs <- Levels
  Tags <- Spaces
  HtifExit = TRUE
INVARIANTS
  CounterExact
  TraceIsExecution
  BudgetRespected
PROPERTY Terminates
