SPECIFICATION LiveSpec
CONSTANTS
  Tag = {0}
  LastSet = 0
  LastWord = 0
  Way = {0, 1}
  Lane = {0}
  Byte = {0, 1}
  PatchqDepth = 1
  MaxPosted = 1
  Backend = "lines"
  Uncached = {FALSE, TRUE}
  MaxHold = 1
  Writers = "other lines"
  None = None
INVARIANTS
  FetchesReturnStores
  OneWayPerILine
PROPERTIES
  FetchesAnswered
