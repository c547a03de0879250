SPECIFICATION LiveSpec
CONSTANTS
  Burst = 4
  MaxPosted = 2
  Data = {0, 1}
  None = None
INVARIANTS
  ResponsesReachOwner
  RequestHeld
  IoBehindStores
  FetchNotStarved
PROPERTIES
  RequestsTaken
