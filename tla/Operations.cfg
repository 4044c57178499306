SPECIFICATION Spec
CONSTANTS
  DocLen = 3
  MaxCalls = 4
INVARIANTS
  SentAsGiven
  
  CompletedOnce
CHECK_DEADLOCK FALSE
