SPECIFICATION LiveSpec
CONSTANTS
  p0 = p0
  p1 = p1
  r0 = r0
  r1 = r1
  t0 = t0
  t1 = t1
  Pages = {p0, p1}
  Frames = {p0, p1}
  Roots = {r0}
  Tables = {t0}
  None = None
  Workloads <- MixWorkloads
  FetchUsers = {TRUE}
  PageSet <- SameSet
  PteImages <- MixPtes
  Cr3Writes = "no walk"
  Edits <- MixEdits
VIEW Live
INVARIANTS
  AccessesPermitted
  TlbFresh
  AnswersAwaited
  IdleMeansNoWalk
PROPERTIES
  FaultsJustified
  OutcomeComplete
  CheckedHalves
  WriteBacksOnlyMark
  GoodLine
  DemandsEnd
