SPECIFICATION Spec
CONSTANTS
  Calls = {c1, c2, c3}
  Requests = {r1, r2, r3}
  NoCall = NoCall
  NoRequest = NoRequest
  MaxPending = 3
  Results = {"OK", "OPERATION_TIMEDOUT"}
  Adverse = {{"destroy"}, {"curl", "verifyPeer", "destroy"}}
  MaxAdverseCalls = 2
SYMMETRY Symmetry
INVARIANTS
  CompletedAtMostOnce
  ListIsRing
  AttachedInUse
  DestroyMeetsLive
PROPERTIES
  RunallDrains
  VerificationNotWeakened
  ImplementsRequestLedger
