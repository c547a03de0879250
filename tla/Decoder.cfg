CONSTANTS
  Programs <- PairPrograms
  Targets <- PairTargets
  MaxFlushes = 1
  MapsWhileWaiting = FALSE
SPECIFICATION Spec
INVARIANTS
  OffersTheCode
  CursorsInStep
  DispatchAgrees
  NeverWedged
PROPERTIES
  FaultsNeeded
