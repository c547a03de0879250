SPECIFICATION Spec
CONSTANTS
  Tag = {0}
  LastSet = 0
  LastWord = 2
  Way = {0}
  Lane = {0}
  Byte = {0, 1}
  PatchqDepth = 2
  MaxPosted = 2
  Backend = "lines"
  Uncached = {FALSE}
  MaxHold = 0
  Writers = "other lines"
  None = None
INVARIANTS
  NoStaleILine
