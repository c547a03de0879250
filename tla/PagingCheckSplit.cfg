SPECIFICATION Spec
CONSTANTS
  p0 = p0
  p1 = p1
  r0 = r0
  r1 = r1
  t0 = t0
  t1 = t1
  Pages = {p0, p1}
  Frames = {p0, p1}
  Roots = {r0}
  Tables = {t0}
  None = None
  Workloads <- CheckWorkloads
  FetchUsers = {TRUE}
  PageSet <- SameSet
  PteImages <- ShutPte
  Cr3Writes = "no walk"
  Edits = {}
VIEW Live
PROPERTY CheckedHalves
