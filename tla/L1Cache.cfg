SPECIFICATION Spec
SYMMETRY Symmetry
CONSTANTS
  Tag = {t0, t1}
  LastSet = 0
  LastWord = 0
  Way = {0, 1}
  Lane = {l0}
  Byte = {b0, b1}
  Depth = 3
  Protected = {}
  Uncached = {FALSE, TRUE}
  Probes = TRUE
  Snoops = TRUE
  ExternalWrites = "outside fills"
  None = None
INVARIANTS
  PostedStoresComplete
  LoadsReturnYoungest
  ReadyKept
  DrainedMeansVisible
  ProbesReturnYoungest
  NoStaleLine
  OneWayPerLine
