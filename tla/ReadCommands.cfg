SPECIFICATION Spec
CONSTANTS
  Commands = {"list", "list delimiter", "listmultiparts", "listparts", "get"}
  MaxEntries = 4
  PageSize = 3
  MAX_ITEMS = 2
  MAX_COMMON_PREFIXES = 2
  Maxima = {0, 2, 4}
  OldLengths = {0, 5}
  DiskSize = 7
  Retries = 2
INVARIANTS
  ListedOnce
  SavedWhole
PROPERTY CommandEnds
