SPECIFICATION Spec
SYMMETRY Symmetry
CONSTANTS
  Tag = {t0, t1}
  LastSet = 0
  LastWord = 1
  Way = {0}
  Lane = {0}
  Byte = {b0, b1}
  PatchqDepth = 2
  MaxPosted = 1
  Backend = "either"
  Uncached = {FALSE}
  MaxHold = 0
  Writers = "other lines"
  None = None
INVARIANTS
  FetchesReturnStores
  NoStaleILine
