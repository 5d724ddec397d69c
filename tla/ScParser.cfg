SPECIFICATION ParserSpec
CONSTANTS
  Inputs <- MCInputs
INVARIANTS EveryBlockRead SlowControlWhole
PROPERTY ReadReturns
CHECK_DEADLOCK FALSE
