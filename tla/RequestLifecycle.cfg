SPECIFICATION FairSpec
CONSTANTS
  UploadSize = 2
  MaxLen = 2
  MaxChunks = 2
  FinalCodes = {200, 204, 307, 404, 503}
  CallbackStatuses = {"OK", "AbortedByCallback"}
INVARIANTS
  IInv
  CallbacksInOrder
  AbortIsFinal
  OkIsSuccess
PROPERTIES
  FailureReported
  EveryRequestCompletes
