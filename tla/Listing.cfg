SPECIFICATION Spec
CONSTANTS
  Listings = {"bucket", "uploads", "parts"}
  MAX_ITEMS = 2
  MAX_COMMON_PREFIXES = 2
  ItemSize = 3
  PrefixSize = 4
  PieceLengths = {1, 2}
  MaxText = 4
  MaxElements = 5
  CallbackStatuses = {"OK", "AbortedByCallback"}
INVARIANTS
  PlaceForNext
  EntriesInOrder
  StartCountsReported
