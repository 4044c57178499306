SPECIFICATION Spec
CONSTANTS
  S3_MAX_ACL_GRANT_COUNT = 2
  GranteeSize = 4
  DocumentSize = 44
  EXTRA_DETAILS_SIZE = 3
  SizeofDetail = 16
  DetailsBufferSize = 20
  MessageSize = 3
  PathSize = 12
  ProgramGrants <- MCProgramGrants
  ForeignGrants <- MCForeignGrants
  Heads <- MCHeads
  PieceLengths = {1, 3}
  ErrorNames <- MCErrorNames
  MaxElements = 6
  MaxPieces = 4
INVARIANTS
  GrantsReadBack
  PiecesMakeNoDifference
  DetailsNotMixed
PROPERTY SetSendsWhole
