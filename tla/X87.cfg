SPECIFICATION Spec
CONSTANTS
  P = 4
  PS = 2
  EW = 5
  W32 = 3
  W64 = 4
  IW <- IWMC
  L = 5
  G = 3
  MinExp <- MinExpMC
  MaxExp = 3
  Warmups <- WarmupsMC
  Requests <- RequestsMC
  Budget = 600
INVARIANTS
  ConversionsExact
  ArithmeticExact
  TranscendentalsExact
  LanesDisjoint
  OperationsEnd
