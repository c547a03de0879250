SPECIFICATION LiveSpec
CONSTANTS
  Tag = {0, 1}
  LastSet = 0
  LastWord = 1
  Way = {0}
  Lane = {0}
  Byte = {0, 1}
  Depth = 2
  Protected = {1}
  Uncached = {FALSE, TRUE}
  Probes = FALSE
  Snoops = FALSE
  ExternalWrites = "never"
  None = None
INVARIANTS
  ReadInStep
PROPERTIES
  ImplementsAtomicMemory
  KeepsServing
