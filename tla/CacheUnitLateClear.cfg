SPECIFICATION Spec
CONSTANTS
  Tag = {0}
  LastSet = 1
  LastWord = 0
  Way = {0}
  Lane = {0}
  Byte = {0, 1}
  PatchqDepth = 1
  MaxPosted = 1
  Backend = "lines"
  Uncached = {FALSE}
  MaxHold = 0
  Writers = "other lines"
  None = None
INVARIANTS
  FetchesReturnStores
