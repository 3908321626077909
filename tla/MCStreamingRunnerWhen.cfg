CONSTANTS
  Token = {"a", "b", "c"}
  Cases <- WhenCases
  MaxQueue = 5
SPECIFICATION FairSpec
PROPERTIES StepReturns
CHECK_DEADLOCK FALSE
