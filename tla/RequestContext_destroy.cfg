SPECIFICATION Spec
CONSTANTS
  Calls = {c1, c2}
  Requests = {r1, r2}
  NoCall = NoCall
  NoRequest = NoRequest
  MaxPending = 2
  Results = {"OK", "OPERATION_TIMEDOUT"}
  Adverse = {{}}
  MaxAdverseCalls = 0
INVARIANT DestroyCompletesAll
