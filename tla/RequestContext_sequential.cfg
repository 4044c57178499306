SPECIFICATION FairSpec
CONSTANTS
  Calls = {c1, c2, c3}
  Requests = {r1, r2}
  NoCall = NoCall
  NoRequest = NoRequest
  MaxPending = 1
  Results = {"OK", "OPERATION_TIMEDOUT"}
  Adverse = {{}}
  MaxAdverseCalls = 0
PROPERTIES
  RunallTerminates
